---- MODULE Spec2Model ----
(***************************************************************************)
(* Model of the Lighthouse migration CLI, its OAuth core and its listing   *)
(* and migration loops:                                                    *)
(*   - token-refresh.ts / token-storage.ts (src/unnamed/part_006)          *)
(*   - localhost-flow.ts (src/src/lib/auth/localhost-flow.ts), pkce.ts     *)
(*   - device-flow.ts (the second part of src/src/index.js)                *)
(*   - initialize of oauth.ts (src/src/lib/auth/oauth.ts)                  *)
(*   - FileDiscovery.fetchAllFiles (src/unnamed/part_006)                  *)
(*   - BinaryFileMigrator and ProgressTracker (src/unnamed/part_008,       *)
(*     src/src/lib/migration/progresstrack.js)                             *)
(*                                                                         *)
(* Time is counted in ticks of 30 seconds (TicksPerMinute ticks make the   *)
(* 60 * 1000 ms of the source).  JavaScript "falsy" values are modelled by *)
(* the value the truthiness tests of the source cannot tell from           *)
(* undefined: 0 for a number or a token, "" for a string.                  *)
(***************************************************************************)
EXTENDS Naturals, Integers, Sequences, FiniteSets, TLC

\* ------------------------------------------------------------------ bounds
MaxTime == 2
MaxIssued == 3
MaxRequests == 2
MaxAttempts == 2
MaxLifetime == 7
MaxDelay == 1
MaxPages == 2
MaxRateLimits == 2
MaxFiles == 2
MaxCalls == 2

\* --------------------------------------------------------- program constants
TicksPerMinute == 2
DefaultBufferMinutes == 5
\* device flow: the default poll interval and the slow_down step, in seconds
DefaultInterval == 5
SlowDownStep == 1
\* GOOGLE_DRIVE.RETRY_BASE_DELAY, in milliseconds, and MIGRATION.DEFAULT_BATCH_SIZE
RetryBaseDelay == 1000
DefaultBatchSize == 3
\* who calls an exported function
CallerKinds == {"direct", "initialize"}

\* getScopesArray(): a copy of OAUTH_CONFIG.scopes
getScopesArray ==
  <<"drive.readonly", "drive.metadata.readonly", "userinfo.email">>

\* The scopes argument of storeTokens: initialize passes getScopesArray();
\* another caller passes the scope list of its own bundle.
ScopesPassed(caller) ==
  IF caller = "initialize" THEN getScopesArray ELSE <<"drive.readonly">>

None == 0
NoEmail == ""
Emails == {"user@example.com"}
Callers == {"c1", "c2"}
\* the loopback ports the OS may assign to server.listen(0, host)
Ports == {49152, 49153}
\* OAUTH_CONFIG.localhost.host, .callbackPath, and some other path
Host == "127.0.0.1"
CallbackPath == "/callback"
Paths == {CallbackPath, "/favicon.ico"}
\* url.searchParams.get(name): null (<<>>), or the value, which may be ""
Null == <<>>
ParamValues == {Null, <<"">>, <<"v">>}
\* expires_in of a provider response, in ticks: omitted (0), one tick (inside
\* the 5-minute margin from the start, expired one tick later), and one tick
\* more than the margin (fresh when issued, exactly 5 minutes from expiry one
\* tick later).
ExpiresIn == {0, 1, 11}

VARIABLES
  now,            \* Date.now(), in ticks
  keytar,         \* the module-level keytar binding is loaded (TRUE) or null
  file,           \* tokens.json: <<>> when missing, else <<StoredTokenData>>
  vault,          \* keyring entries of the service: email -> <<>> or <<data>>
  issued,         \* how many token responses the provider has issued; the
                  \* n-th carries access token n and, if any, refresh token n
  call            \* per caller: the getValidAccessToken invocation in progress;
                  \* nreq counts its requests to the token endpoint

tokenVars == <<now, keytar, file, vault, issued, call>>

VARIABLES
  server,         \* the http.Server of startCallbackServer: state and port
  closeCalls,     \* how many times server.close() has been called
  timer,          \* the 5-minute setTimeout: "none", "armed" or "fired"
  promise,        \* the promise startCallbackServer returned
  requests,       \* the requests received so far, each with its answer
  exchanges,      \* how many code exchanges were sent to the token endpoint
  sent,           \* the bodies of these exchange requests, in order
  pkce,           \* the PKCE pair of the attempt (pair 0 before the first)
  generated,      \* how many PKCE pairs the random generator has produced
  authUrl         \* Null, or <<the authorization URL shown to the user>>

VARIABLES
  device,         \* the executeDeviceFlow call: position, locals, outcome
  clock           \* Date.now() in seconds since that call started

deviceVars == <<device, clock>>

VARIABLES
  init,           \* the initialize call: position, method, outcome
  config          \* OAUTH_CONFIG: which of clientId, clientSecret are set

initVars == <<init, config>>

VARIABLES
  op,             \* the last storage or status call made through the API and
                  \* what it returned; net counts its network requests
  writing         \* <<>>, or <<the write fs.writeFile has under way on the file>>

apiVars == <<op, writing>>

VARIABLES
  listing,        \* the FileDiscovery.fetchAllFiles call: position, locals,
                  \* outcome, and the result pages Drive holds for its query
  migrator        \* a BinaryFileMigrator: its fields, its ProgressTracker and
                  \* the migrateFiles call in progress

migrationVars == <<listing, migrator>>

flowVars == <<server, closeCalls, timer, promise, requests, exchanges, sent,
              pkce, generated, authUrl>>

vars == <<tokenVars, flowVars, deviceVars, initVars, apiVars, migrationVars>>

\* ----------------------------------------------------------------- records
\* OAuthTokens (src/src/lib/types.ts): the fields the refresh decision reads.
Tokens(a, r, e) == [access_token |-> a, refresh_token |-> r, expiry_date |-> e]

\* StoredTokenData (src/src/lib/types.ts)
StoredData(t, em, scopes, created, refreshed) ==
  [tokens |-> t, email |-> em, scopes |-> scopes, createdAt |-> created,
   lastRefreshedAt |-> refreshed]

NoResult == [kind |-> "none", token |-> None]
Ok(tok) == [kind |-> "ok", token |-> tok]
Fail(k) == [kind |-> k, token |-> None]

\* A caller with no invocation in progress.  refreshToken is the argument of
\* refreshAccessToken, response the answer of the token endpoint (with the
\* Date.now() at which it is read), newTokens and updatedData the locals of
\* getValidAccessToken and updateTokens.
IdleCall ==
  [pc |-> "idle", refreshToken |-> None, response |-> <<>>, newTokens |-> <<>>,
   updatedData |-> <<>>, result |-> NoResult, nreq |-> 0]

\* An invocation that has ended with result r after n token requests.
DoneCall(r, n) == [IdleCall EXCEPT !.pc = "done", !.result = r, !.nreq = n]

\* ------------------------------------------------------------ token-refresh
\* Variant: the safety margin applied twice over.
isTokenExpiredDoubleMargin(expiryDate, bufferMinutes, nowT) ==
  IF expiryDate = None THEN TRUE
  ELSE nowT >= expiryDate - 2 * bufferMinutes * TicksPerMinute

\* Variant: a bundle without expiry is trusted.
isTokenExpiredTrustsNoExpiry(expiryDate, bufferMinutes, nowT) ==
  IF expiryDate = None THEN FALSE
  ELSE nowT >= expiryDate - bufferMinutes * TicksPerMinute

\* isTokenExpired(expiryDate?, bufferMinutes = 5) with Date.now() = nowT
isTokenExpired(expiryDate, bufferMinutes, nowT) ==
  IF expiryDate = None THEN TRUE
  ELSE nowT >= expiryDate - bufferMinutes * TicksPerMinute

\* data.expires_in ? Date.now() + data.expires_in * 1000 : undefined
ExpiryDate(expires_in, nowT) ==
  IF expires_in # 0 THEN nowT + expires_in ELSE None

\* What the token endpoint may answer to a refresh request: a success body
\* (with or without a rotated refresh token, with or without expires_in), a
\* non-OK status whose body names an error (or has none: 'unknown'), or a
\* transport failure (fetch rejects).
RefreshResponses ==
  {[kind |-> "ok", error |-> "", access_token |-> issued + 1,
    refresh_token |-> r, expires_in |-> e] :
      r \in {None, issued + 1}, e \in ExpiresIn}
  \cup {[kind |-> "http", error |-> err, access_token |-> None,
         refresh_token |-> None, expires_in |-> 0] :
          err \in {"invalid_grant", "invalid_client", "unknown"}}
  \cup {[kind |-> "network", error |-> "", access_token |-> None,
         refresh_token |-> None, expires_in |-> 0]}

\* Variant: the refresh token is taken from the response alone.
RefreshedTokensNoFallback(data, refreshToken, nowT) ==
  Tokens(data.access_token, data.refresh_token,
         ExpiryDate(data.expires_in, nowT))

\* The value refreshAccessToken returns for a success body.
RefreshedTokens(data, refreshToken, nowT) ==
  Tokens(data.access_token,
         IF data.refresh_token # None THEN data.refresh_token ELSE refreshToken,
         ExpiryDate(data.expires_in, nowT))

\* Variant: invalid_grant is not told apart from the other errors.
RefreshErrorUnclassified(data) ==
  IF data.kind = "network" THEN Fail("NetworkError")
  ELSE Fail("RefreshFailed")

\* The error refreshAccessToken throws for a failed request.
RefreshError(data) ==
  IF data.kind = "network" THEN Fail("NetworkError")
  ELSE IF data.error = "invalid_grant" THEN Fail("RefreshRejected")
  ELSE Fail("RefreshFailed")

\* ------------------------------------------------------------ token-storage
\* A member of a JSON text: left out (<<>>) when its value is undefined.
Member(value, undefined) == IF value = undefined THEN <<>> ELSE <<value>>

\* What reading a member of a parsed text gives: undefined when left out.
Read(member, undefined) == IF member = <<>> THEN undefined ELSE member[1]

\* JSON.stringify(data): the members whose value is undefined are left out.
JSONstringify(data) ==
  [tokens |-> [access_token |-> Member(data.tokens.access_token, None),
               refresh_token |-> Member(data.tokens.refresh_token, None),
               expiry_date |-> Member(data.tokens.expiry_date, None)],
   email |-> Member(data.email, NoEmail),
   scopes |-> data.scopes,
   createdAt |-> Member(data.createdAt, None),
   lastRefreshedAt |-> Member(data.lastRefreshedAt, None)]

\* JSON.parse(text) as StoredTokenData
JSONparse(text) ==
  StoredData(Tokens(Read(text.tokens.access_token, None),
                    Read(text.tokens.refresh_token, None),
                    Read(text.tokens.expiry_date, None)),
             Read(text.email, NoEmail),
             text.scopes,
             Read(text.createdAt, None),
             Read(text.lastRefreshedAt, None))

\* storeInFile(data): the file afterwards, held as what JSON.parse reads
\* back from the text written
storeInFile(data) == <<JSONparse(JSONstringify(data))>>

\* retrieveFromFile(): null when the file is missing, or when JSON.parse
\* throws on what a write in progress has put there so far
retrieveFromFile == IF writing # <<>> THEN <<>> ELSE file

\* retrieveFromKeyring(email)
retrieveFromKeyring(email) ==
  IF keytar /\ email \in Emails THEN vault[email] ELSE <<>>

\* retrieveTokens(email?)
retrieveTokens(email) ==
  IF email # NoEmail /\ keytar /\ retrieveFromKeyring(email) # <<>>
  THEN retrieveFromKeyring(email)
  ELSE retrieveFromFile

\* { ...existingData.tokens, ...tokens }
SpreadTokens(existing, new) ==
  [f \in DOMAIN existing \cup DOMAIN new |->
     IF f \in DOMAIN new THEN new[f] ELSE existing[f]]

\* Variant: the merged record is stamped anew, as a first store would.
UpdatedDataRestamped(existingData, tokens, nowT) ==
  [existingData EXCEPT !.tokens = SpreadTokens(existingData.tokens, tokens),
                       !.scopes = getScopesArray,
                       !.createdAt = nowT,
                       !.lastRefreshedAt = nowT]

\* the updatedData of updateTokens
UpdatedData(existingData, tokens, nowT) ==
  [existingData EXCEPT !.tokens = SpreadTokens(existingData.tokens, tokens),
                       !.lastRefreshedAt = nowT]

\* storeInKeyring(email, data): the vault after the call; the write may fail
\* and is then swallowed (ok = FALSE).
storeInKeyring(email, data, ok) ==
  IF keytar /\ ok
  THEN [vault EXCEPT ![email] = <<JSONparse(JSONstringify(data))>>]
  ELSE vault

\* what storeInKeyring returns: true unless keytar is missing or throws
storedInKeyring(ok) == keytar /\ ok

\* deleteFromKeyring(email)
deleteFromKeyring(email, ok) ==
  IF keytar /\ ok THEN [vault EXCEPT ![email] = <<>>] ELSE vault

\* ------------------------------------------------------------------ callers
\* storeTokens, executeLocalhostFlow and executeDeviceFlow are exported and
\* are called by initialize (caller "initialize", which is then at the call)
\* or on their own (caller "direct", no initialize in progress).
Called(caller, at) ==
  IF caller = "initialize" THEN init.pc = at ELSE init.pc \in {"idle", "done"}

\* initialize awaits the promise the callee returned.
Awaiting(caller, at) ==
  IF caller = "initialize" THEN [init EXCEPT !.pc = at] ELSE init

\* What a call through the API (caller "api") returned; other callers'
\* return values are not recorded. after is the kind of the call before it.
NoOp == [kind |-> "none", arg |-> <<>>, result |-> <<>>, net |-> 0,
         after |-> "none"]

Reported(caller, kind, arg, result, net) ==
  IF caller = "api"
  THEN [kind |-> kind, arg |-> arg, result |-> result, net |-> net,
        after |-> op.kind]
  ELSE op

\* initialize returns or throws.
Returned(caller, outcome) ==
  IF caller = "initialize" THEN [init EXCEPT !.pc = "done", !.outcome = outcome]
  ELSE init

\* ------------------------------------------------------------- operations
\* Time passes.
Tick ==
  /\ now < MaxTime
  /\ now' = now + 1
  /\ UNCHANGED <<keytar, file, vault, issued, call, flowVars, deviceVars, initVars, apiVars, migrationVars>>

\* Variant: the file is written only when the keyring did not take the record.
storeTokensKeyringOnly(caller, r, e, em, ok) ==
  /\ Called(caller, "store")
  /\ issued < MaxIssued
  /\ r \in {None, issued + 1}
  /\ LET data == StoredData(Tokens(issued + 1, r, ExpiryDate(e, now)), em,
                             ScopesPassed(caller), now, None)
         kept == em # NoEmail /\ keytar /\ storedInKeyring(ok)
     IN /\ vault' = IF em # NoEmail /\ keytar
                    THEN storeInKeyring(em, data, ok) ELSE vault
        /\ file' = IF kept THEN file ELSE storeInFile(data)
        /\ op' = Reported(caller, "storeTokens", data,
                          IF kept THEN "keyring" ELSE "file", 0)
  /\ issued' = issued + 1
  /\ init' = Returned(caller, [state |-> "resolved", value |-> "tokens"])
  /\ UNCHANGED <<now, keytar, call, flowVars, deviceVars, config, writing, migrationVars>>

\* storeTokens(tokens, email, scopes) with the token bundle a flow returned
\* (the next access token of the provider, refresh token r, expires_in e) and
\* the email em of its id_token, if any; the keyring write succeeds or not
\* (ok).  initialize returns after it.
storeTokens(caller, r, e, em, ok) ==
  /\ Called(caller, "store")
  /\ issued < MaxIssued
  /\ r \in {None, issued + 1}
  /\ LET data == StoredData(Tokens(issued + 1, r, ExpiryDate(e, now)), em,
                             ScopesPassed(caller), now, None)
     IN /\ vault' = IF em # NoEmail /\ keytar
                    THEN storeInKeyring(em, data, ok) ELSE vault
        /\ file' = storeInFile(data)
        /\ op' = Reported(caller, "storeTokens", data,
                          IF em # NoEmail /\ keytar /\ storedInKeyring(ok)
                          THEN "keyring" ELSE "file", 0)
  /\ issued' = issued + 1
  /\ init' = Returned(caller, [state |-> "resolved", value |-> "tokens"])
  /\ UNCHANGED <<now, keytar, call, flowVars, deviceVars, config, writing, migrationVars>>

\* logout(revokeToken): without a record in the file it returns at once (a
\* step only when its return is observed); otherwise it posts the access
\* token to the revoke endpoint when asked to (answered "ok", "http" for a
\* non-OK status, or "network" when fetch throws; none of them matters) and
\* calls deleteTokens(data.email), whose keyring delete succeeds or not (ok).
logout(caller, revokeToken, answer, ok) ==
  /\ Called(caller, "logout")
  /\ caller = "api" \/ retrieveTokens(NoEmail) # <<>>
  /\ IF retrieveTokens(NoEmail) = <<>>
     THEN /\ op' = Reported(caller, "logout", revokeToken, "no session", 0)
          /\ UNCHANGED <<file, vault>>
     ELSE LET data == retrieveTokens(NoEmail)[1]
          IN /\ vault' = IF data.email # NoEmail /\ keytar
                         THEN deleteFromKeyring(data.email, ok) ELSE vault
             /\ file' = <<>>
             /\ op' = Reported(caller, "logout", revokeToken, "logged out",
                               IF revokeToken /\ data.tokens.access_token # None
                               THEN 1 ELSE 0)
  /\ UNCHANGED <<now, keytar, issued, call, flowVars, deviceVars, initVars, writing, migrationVars>>

\* Variant: the refresh request is sent without checking for a refresh token.
getValidAccessTokenNoCheck(c) ==
  /\ call[c].pc \in {"idle", "done"}
  /\ LET storedData == retrieveTokens(NoEmail)
     IN IF storedData = <<>>
        THEN call' = [call EXCEPT ![c] = DoneCall(Fail("NotAuthenticated"), 0)]
        ELSE LET tokens == storedData[1].tokens
             IN IF ~isTokenExpired(tokens.expiry_date, DefaultBufferMinutes, now)
                THEN call' = [call EXCEPT ![c] = DoneCall(Ok(tokens.access_token), 0)]
                ELSE call' = [call EXCEPT ![c] =
                       [IdleCall EXCEPT !.pc = "fetch",
                                        !.refreshToken = tokens.refresh_token,
                                        !.nreq = 1]]
  /\ UNCHANGED <<now, keytar, file, vault, issued, flowVars, deviceVars, initVars, apiVars, migrationVars>>

\* getValidAccessToken(), up to its first network request: read the record,
\* decide, and either finish or send the refresh request.
getValidAccessToken(c) ==
  /\ call[c].pc \in {"idle", "done"}
  /\ LET storedData == retrieveTokens(NoEmail)
     IN IF storedData = <<>>
        THEN call' = [call EXCEPT ![c] = DoneCall(Fail("NotAuthenticated"), 0)]
        ELSE LET tokens == storedData[1].tokens
             IN IF ~isTokenExpired(tokens.expiry_date, DefaultBufferMinutes, now)
                THEN call' = [call EXCEPT ![c] = DoneCall(Ok(tokens.access_token), 0)]
                ELSE IF tokens.refresh_token = None
                THEN call' = [call EXCEPT ![c] = DoneCall(Fail("ReauthRequired"), 0)]
                ELSE call' = [call EXCEPT ![c] =
                       [IdleCall EXCEPT !.pc = "fetch",
                                        !.refreshToken = tokens.refresh_token,
                                        !.nreq = 1]]
  /\ UNCHANGED <<now, keytar, file, vault, issued, flowVars, deviceVars, initVars, apiVars, migrationVars>>

\* The token endpoint answers the refresh request in flight.
tokenEndpoint(c) ==
  /\ call[c].pc = "fetch"
  /\ \E data \in RefreshResponses :
       /\ data.kind = "ok" => issued < MaxIssued
       /\ issued' = IF data.kind = "ok" THEN issued + 1 ELSE issued
       /\ call' = [call EXCEPT ![c].pc = "fetched", ![c].response = <<data>>]
  /\ UNCHANGED <<now, keytar, file, vault, flowVars, deviceVars, initVars, apiVars, migrationVars>>

\* Variant: a failed request other than invalid_grant is sent again.
refreshAccessTokenRetries(c) ==
  /\ call[c].pc = "fetched"
  /\ LET data == call[c].response[1]
     IN IF data.kind = "ok"
        THEN call' = [call EXCEPT
               ![c].pc = "update",
               ![c].newTokens = <<RefreshedTokens(data, call[c].refreshToken, now)>>]
        ELSE IF data.kind = "http" /\ data.error = "invalid_grant"
        THEN call' = [call EXCEPT ![c] = DoneCall(RefreshError(data), call[c].nreq)]
        ELSE call' = [call EXCEPT ![c].pc = "fetch", ![c].response = <<>>,
                                  ![c].nreq = @ + 1]
  /\ UNCHANGED <<now, keytar, file, vault, issued, flowVars, deviceVars, initVars, apiVars, migrationVars>>

\* refreshAccessToken(refreshToken), from the answer on: throw for a failed
\* request (getValidAccessToken rethrows), else build the new tokens.
refreshAccessToken(c) ==
  /\ call[c].pc = "fetched"
  /\ LET data == call[c].response[1]
     IN IF data.kind = "ok"
        THEN call' = [call EXCEPT
               ![c].pc = "update",
               ![c].response = <<[data EXCEPT !.kind = "read"]>>,
               ![c].newTokens = <<RefreshedTokens(data, call[c].refreshToken, now)>>]
        ELSE call' = [call EXCEPT ![c] = DoneCall(RefreshError(data), call[c].nreq)]
  /\ UNCHANGED <<now, keytar, file, vault, issued, flowVars, deviceVars, initVars, apiVars, migrationVars>>

\* updateTokens(newTokens), first part: read the existing record and merge.
updateTokens(c) ==
  /\ call[c].pc = "update"
  /\ LET existingData == retrieveTokens(NoEmail)
     IN IF existingData = <<>>
        THEN call' = [call EXCEPT ![c] = DoneCall(Fail("UpdateFailed"), call[c].nreq)]
        ELSE LET updatedData ==
                   UpdatedData(existingData[1], call[c].newTokens[1], now)
             IN call' = [call EXCEPT
                  ![c].pc = IF existingData[1].email # NoEmail /\ keytar
                            THEN "keyring" ELSE "write",
                  ![c].updatedData = <<updatedData>>]
  /\ UNCHANGED <<now, keytar, file, vault, issued, flowVars, deviceVars, initVars, apiVars, migrationVars>>

\* updateTokens, second part: await storeInKeyring(existingData.email, ...)
updateKeyring(c) ==
  /\ call[c].pc = "keyring"
  /\ \E ok \in BOOLEAN :
       vault' = storeInKeyring(call[c].updatedData[1].email,
                               call[c].updatedData[1], ok)
  /\ call' = [call EXCEPT ![c].pc = "write"]
  /\ UNCHANGED <<now, keytar, file, issued, flowVars, deviceVars, initVars, apiVars, migrationVars>>

\* updateTokens, last part: await storeInFile(updatedData); then
\* getValidAccessToken returns newTokens.access_token.
updateFile(c) ==
  /\ call[c].pc = "write"
  /\ file' = storeInFile(call[c].updatedData[1])
  /\ call' = [call EXCEPT ![c] =
       DoneCall(Ok(call[c].newTokens[1].access_token), call[c].nreq)]
  /\ UNCHANGED <<now, keytar, vault, issued, flowVars, deviceVars, initVars, apiVars, migrationVars>>

\* ------------------------------------------------------------ localhost-flow
\* if (v): a parameter that is present and not the empty string
Truthy(v) == v # Null /\ v[1] # ""

\* resolve(v) / reject(e) of the promise: only the first call settles it.
Settle(p, st, v) ==
  IF p.state = "pending" THEN [state |-> st, value |-> v] ELSE p

\* server.close(): the listener stops accepting connections.
Closed(srv) == [srv EXCEPT !.state = "closed"]

\* A request the handler has answered with res.writeHead(status); res.end(page)
Answered(q, status, page) ==
  [path |-> q.path, error |-> q.error, code |-> q.code,
   st |-> "answered", status |-> status, page |-> page]

\* A request whose handler awaits exchangeCodeForTokens: nothing sent yet.
Exchanging(q) ==
  [path |-> q.path, error |-> q.error, code |-> q.code,
   st |-> "exchanging", status |-> 0, page |-> ""]

Queries == [path : Paths, error : ParamValues, code : ParamValues]

\* `http://${host}:${port}${callbackPath}`
RedirectUri(port) == [host |-> Host, port |-> port, path |-> CallbackPath]

\* generateCodeVerifier: base64url of 32 bytes of crypto.randomBytes.  The
\* n-th draw of the generator is written n: two draws never give the same
\* bytes.
generateCodeVerifier(n) == n

\* generateCodeChallenge: base64url(sha256(verifier)), kept symbolic.
generateCodeChallenge(codeVerifier) == <<"S256", codeVerifier>>

generatePKCEPair(n) ==
  [codeVerifier |-> generateCodeVerifier(n),
   codeChallenge |-> generateCodeChallenge(generateCodeVerifier(n))]

\* buildAuthUrl: the query parameters that vary between attempts.
buildAuthUrl(codeChallenge, redirectUri) ==
  [code_challenge |-> codeChallenge, code_challenge_method |-> "S256",
   redirect_uri |-> redirectUri]

\* The body exchangeCodeForTokens posts to the token endpoint.
ExchangeParams(code, codeVerifier, redirectUri) ==
  [code |-> code, code_verifier |-> codeVerifier,
   grant_type |-> "authorization_code", redirect_uri |-> redirectUri]

\* Variant: the attempt keeps the PKCE pair of the first attempt.
executeLocalhostFlowReusesPair(caller) ==
  /\ Called(caller, "localhost")
  /\ server.state = "none" \/ promise.state # "pending"
  /\ generated < MaxAttempts
  /\ generated' = generated + 1
  /\ pkce' = generatePKCEPair(1)
  /\ server' = [state |-> "binding", port |-> 0]
  /\ closeCalls' = 0
  /\ timer' = "armed"
  /\ promise' = [state |-> "pending", value |-> ""]
  /\ requests' = <<>>
  /\ exchanges' = 0
  /\ authUrl' = Null
  /\ sent' = <<>>
  /\ init' = Awaiting(caller, "awaitLocalhost")
  /\ UNCHANGED <<tokenVars, deviceVars, config, apiVars, migrationVars>>

\* executeLocalhostFlow up to its await: a PKCE pair is generated, and
\* startCallbackServer creates the server, requests listen(0, host) and arms
\* the 5-minute timer.  A caller starts an attempt when none is pending; the
\* server, timer and promise of a settled attempt are referenced by nobody
\* and are followed no further.
executeLocalhostFlow(caller) ==
  /\ Called(caller, "localhost")
  /\ server.state = "none" \/ promise.state # "pending"
  /\ generated < MaxAttempts
  /\ generated' = generated + 1
  /\ pkce' = generatePKCEPair(generated + 1)
  /\ server' = [state |-> "binding", port |-> 0]
  /\ closeCalls' = 0
  /\ timer' = "armed"
  /\ promise' = [state |-> "pending", value |-> ""]
  /\ requests' = <<>>
  /\ exchanges' = 0
  /\ authUrl' = Null
  /\ sent' = <<>>
  /\ init' = Awaiting(caller, "awaitLocalhost")
  /\ UNCHANGED <<tokenVars, deviceVars, config, apiVars, migrationVars>>

\* server.listen fails (the address cannot be bound): the server emits
\* 'error', which has no listener, so the process ends with an uncaught
\* exception; no promise is settled and a caller never resumes.
listenFails ==
  /\ server.state = "binding"
  /\ server' = [server EXCEPT !.state = "failed"]
  /\ timer' = "none"
  /\ init' = IF init.pc = "awaitLocalhost" THEN [init EXCEPT !.pc = "crashed"]
             ELSE init
  /\ UNCHANGED <<closeCalls, promise, requests, exchanges, sent, pkce,
                 generated, authUrl, tokenVars, deviceVars, config, apiVars, migrationVars>>

\* The listening callback of server.listen: the OS has assigned the port and
\* onServerReady(port) builds the authorization URL.
serverReady ==
  /\ server.state = "binding"
  /\ \E port \in Ports :
       /\ server' = [state |-> "listening", port |-> port]
       /\ authUrl' = <<buildAuthUrl(pkce.codeChallenge, RedirectUri(port))>>
  /\ UNCHANGED <<closeCalls, timer, promise, requests, exchanges, sent,
                 pkce, generated, tokenVars, deviceVars, initVars, apiVars, migrationVars>>

\* Variant: the code parameter is looked at before the error parameter.
requestHandlerCodeFirst(q) ==
  /\ server.state = "listening"
  /\ Len(requests) < MaxRequests
  /\ IF q.path # CallbackPath
     THEN /\ requests' = Append(requests, Answered(q, 404, "Not Found"))
          /\ UNCHANGED <<server, closeCalls, promise, exchanges, sent>>
     ELSE IF Truthy(q.code)
     THEN /\ requests' = Append(requests, Exchanging(q))
          /\ exchanges' = exchanges + 1
          /\ sent' = Append(sent, ExchangeParams(q.code[1], pkce.codeVerifier,
                                                 RedirectUri(server.port)))
          /\ UNCHANGED <<server, closeCalls, promise>>
     ELSE IF Truthy(q.error)
     THEN /\ requests' = Append(requests, Answered(q, 200, "ERROR_HTML"))
          /\ server' = Closed(server)
          /\ closeCalls' = closeCalls + 1
          /\ promise' = Settle(promise, "rejected", "OAuth error")
          /\ UNCHANGED <<exchanges, sent>>
     ELSE /\ requests' = Append(requests, Answered(q, 400, "ERROR_HTML"))
          /\ server' = Closed(server)
          /\ closeCalls' = closeCalls + 1
          /\ promise' = Settle(promise, "rejected", "No authorization code received")
          /\ UNCHANGED <<exchanges, sent>>
  /\ UNCHANGED <<timer, pkce, generated, authUrl, tokenVars, deviceVars, initVars, apiVars, migrationVars>>

\* The request handler of http.createServer, up to its first await.
requestHandler(q) ==
  /\ server.state = "listening"
  /\ Len(requests) < MaxRequests
  /\ IF q.path # CallbackPath
     THEN /\ requests' = Append(requests, Answered(q, 404, "Not Found"))
          /\ UNCHANGED <<server, closeCalls, promise, exchanges, sent>>
     ELSE IF Truthy(q.error)
     THEN /\ requests' = Append(requests, Answered(q, 200, "ERROR_HTML"))
          /\ server' = Closed(server)
          /\ closeCalls' = closeCalls + 1
          /\ promise' = Settle(promise, "rejected", "OAuth error")
          /\ UNCHANGED <<exchanges, sent>>
     ELSE IF ~Truthy(q.code)
     THEN /\ requests' = Append(requests, Answered(q, 400, "ERROR_HTML"))
          /\ server' = Closed(server)
          /\ closeCalls' = closeCalls + 1
          /\ promise' = Settle(promise, "rejected", "No authorization code received")
          /\ UNCHANGED <<exchanges, sent>>
     ELSE /\ requests' = Append(requests, Exchanging(q))
          /\ exchanges' = exchanges + 1
          /\ sent' = Append(sent, ExchangeParams(q.code[1], pkce.codeVerifier,
                                                 RedirectUri(server.port)))
          /\ UNCHANGED <<server, closeCalls, promise>>
  /\ UNCHANGED <<timer, pkce, generated, authUrl, tokenVars, deviceVars, initVars, apiVars, migrationVars>>

\* exchangeCodeForTokens returns or throws; the handler answers the browser,
\* closes the server and settles the promise.
exchangeCompletes(i, ok) ==
  /\ i \in DOMAIN requests
  /\ requests[i].st = "exchanging"
  /\ requests' = [requests EXCEPT ![i] =
       IF ok THEN Answered(requests[i], 200, "SUCCESS_HTML")
       ELSE Answered(requests[i], 500, "ERROR_HTML")]
  /\ server' = Closed(server)
  /\ closeCalls' = closeCalls + 1
  /\ promise' = IF ok THEN Settle(promise, "resolved", "tokens")
                ELSE Settle(promise, "rejected", "Token exchange failed")
  /\ UNCHANGED <<timer, exchanges, sent, pkce, generated, authUrl, tokenVars, deviceVars, initVars, apiVars, migrationVars>>

\* Variant: the timeout rejects without closing the server.
timeoutFiresNoClose ==
  /\ timer = "armed"
  /\ server.state # "binding"
  /\ timer' = "fired"
  /\ promise' = Settle(promise, "rejected", "Authentication timeout")
  /\ UNCHANGED <<server, closeCalls, requests, exchanges, sent, pkce, generated, authUrl, tokenVars, deviceVars, initVars, apiVars, migrationVars>>

\* Variant: the timeout is dropped once any request has been received.
timeoutFiresUnlessRequests ==
  /\ timer = "armed"
  /\ server.state # "binding"
  /\ requests = <<>>
  /\ timer' = "fired"
  /\ server' = Closed(server)
  /\ closeCalls' = closeCalls + 1
  /\ promise' = Settle(promise, "rejected", "Authentication timeout")
  /\ UNCHANGED <<requests, exchanges, sent, pkce, generated, authUrl, tokenVars, deviceVars, initVars, apiVars, migrationVars>>

\* The setTimeout callback, 5 minutes after startCallbackServer was called.
\* The listening callback runs on the next tick, before any timer.
timeoutFires ==
  /\ timer = "armed"
  /\ server.state # "binding"
  /\ timer' = "fired"
  /\ server' = Closed(server)
  /\ closeCalls' = closeCalls + 1
  /\ promise' = Settle(promise, "rejected", "Authentication timeout")
  /\ UNCHANGED <<requests, exchanges, sent, pkce, generated, authUrl, tokenVars, deviceVars, initVars, apiVars, migrationVars>>

\* --------------------------------------------------------------- device-flow
\* executeDeviceFlow (src/src/index.js 115-159).  Its times are in seconds.
Pending == [state |-> "pending", value |-> ""]

IdleDevice ==
  [pc |-> "idle", pollInterval |-> 0, currentInterval |-> 0, expiresAt |-> 0,
   wakeAt |-> 0, slowDowns |-> 0, codeRequests |-> 0, polls |-> 0,
   lastPollAt |-> 0, outcome |-> Pending]

\* deviceCodeData.interval: absent (0) or given by the provider
Intervals == {0, 1, 5}
\* deviceCodeData.expires_in
Lifetimes == 1..MaxLifetime
\* how long a fetch takes, and how late a timer fires
Delays == 0..MaxDelay
\* what the token endpoint answers to a poll; "network" is a fetch that throws
PollAnswers ==
  {"ok", "authorization_pending", "slow_down", "access_denied", "network"}

\* pollForToken: the tokens, or the message of the Error it throws.
pollForToken(answer) ==
  CASE answer = "ok" -> [kind |-> "return", message |-> "tokens"]
    [] answer = "authorization_pending" -> [kind |-> "throw", message |-> "PENDING"]
    [] answer = "slow_down" -> [kind |-> "throw", message |-> "SLOW_DOWN"]
    [] answer = "network" -> [kind |-> "throw", message |-> "fetch failed"]
    [] OTHER -> [kind |-> "throw", message |-> "Token polling failed"]

\* executeDeviceFlow ends: return tokens, or throw.
DeviceDone(dv, state, value) ==
  [dv EXCEPT !.pc = "done", !.outcome = [state |-> state, value |-> value]]

\* while (Date.now() < expiresAt) at time t: start the wait of currentInterval,
\* or leave the loop and throw.
LoopTop(dv, t) ==
  IF t < dv.expiresAt
  THEN [dv EXCEPT !.pc = "wait", !.wakeAt = t + dv.currentInterval]
  ELSE DeviceDone(dv, "rejected", "Device code expired")

\* Variant: SLOW_DOWN is not caught.
AfterPollSlowDownEscapes(dv, r, t) ==
  IF r.kind = "return" THEN DeviceDone(dv, "resolved", r.message)
  ELSE IF r.message = "PENDING" THEN LoopTop(dv, t)
  ELSE DeviceDone(dv, "rejected", r.message)

\* The try/catch around pollForToken in the loop, with its result r at time t.
AfterPoll(dv, r, t) ==
  IF r.kind = "return" THEN DeviceDone(dv, "resolved", r.message)
  ELSE IF r.message = "PENDING" THEN LoopTop(dv, t)
  ELSE IF r.message = "SLOW_DOWN"
  THEN LoopTop([dv EXCEPT !.currentInterval = @ + SlowDownStep,
                          !.slowDowns = @ + 1], t)
  ELSE DeviceDone(dv, "rejected", r.message)

\* executeDeviceFlow up to the fetch of requestDeviceCode.
executeDeviceFlow(caller) ==
  /\ Called(caller, "device")
  /\ device.pc \in {"idle", "done"}
  /\ device' = [IdleDevice EXCEPT !.pc = "code", !.codeRequests = 1]
  /\ clock' = 0
  /\ init' = Awaiting(caller, "awaitDevice")
  /\ UNCHANGED <<tokenVars, flowVars, config, apiVars, migrationVars>>

\* The device-authorization endpoint answers after d seconds; on success the
\* poll interval and the expiry are computed and the loop is entered.
deviceCodeResponse(ok, interval, expires_in, d) ==
  /\ device.pc = "code"
  /\ clock' = clock + d
  /\ device' =
       IF ~ok THEN DeviceDone(device, "rejected", "Device code request failed")
       ELSE LET pollInterval == IF interval # 0 THEN interval ELSE DefaultInterval
            IN LoopTop([device EXCEPT !.pollInterval = pollInterval,
                                      !.currentInterval = pollInterval,
                                      !.expiresAt = clock' + expires_in],
                       clock')
  /\ UNCHANGED <<tokenVars, flowVars, initVars, apiVars, migrationVars>>

\* The setTimeout of the wait fires, late seconds late; pollForToken sends
\* its request.
pollTimerFires(late) ==
  /\ device.pc = "wait"
  /\ clock' = device.wakeAt + late
  /\ device' = [device EXCEPT !.pc = "poll", !.polls = @ + 1,
                              !.lastPollAt = clock']
  /\ UNCHANGED <<tokenVars, flowVars, initVars, apiVars, migrationVars>>

\* The token endpoint answers the poll after d seconds.
pollResponse(answer, d) ==
  /\ device.pc = "poll"
  /\ clock' = clock + d
  /\ device' = AfterPoll(device, pollForToken(answer), clock')
  /\ UNCHANGED <<tokenVars, flowVars, initVars, apiVars, migrationVars>>

\* ---------------------------------------------------------------- initialize
\* initialize (src/src/lib/auth/oauth.ts 20-72)
IdleInit == [pc |-> "idle", method |-> "auto", outcome |-> Pending]

\* preferredMethod
Methods == {"auto", "localhost", "device"}

\* GOOGLE_CLIENT_ID / GOOGLE_CLIENT_SECRET of the environment, '' when unset
Configs == [clientId : {"", "id"}, clientSecret : {"", "secret"}]

\* validateOAuthConfig throws
ConfigMissing == config.clientId = "" \/ config.clientSecret = ""

\* Variant: the configuration is not validated.
initializeNoValidation(m) ==
  /\ init.pc \in {"idle", "done"}
  /\ init' = [pc |-> IF m = "device" THEN "device" ELSE "localhost",
              method |-> m, outcome |-> Pending]
  /\ UNCHANGED <<tokenVars, flowVars, deviceVars, config, apiVars, migrationVars>>

\* Variant: a new authentication begins by discarding the stored record.
initializeClearsFirst(m) ==
  /\ init.pc \in {"idle", "done"}
  /\ init' =
       IF ConfigMissing
       THEN [pc |-> "done", method |-> m,
             outcome |-> [state |-> "rejected", value |-> "Missing OAuth credentials"]]
       ELSE [pc |-> IF m = "device" THEN "device" ELSE "localhost",
             method |-> m, outcome |-> Pending]
  /\ file' = IF ConfigMissing THEN file ELSE <<>>
  /\ vault' = IF ConfigMissing THEN vault ELSE [e \in Emails |-> <<>>]
  /\ UNCHANGED <<now, keytar, issued, call, flowVars, deviceVars, config, apiVars, migrationVars>>

\* initialize(preferredMethod) up to the call of the first flow.
initialize(m) ==
  /\ init.pc \in {"idle", "done"}
  /\ init' =
       IF ConfigMissing
       THEN [pc |-> "done", method |-> m,
             outcome |-> [state |-> "rejected", value |-> "Missing OAuth credentials"]]
       ELSE [pc |-> IF m = "device" THEN "device" ELSE "localhost",
             method |-> m, outcome |-> Pending]
  /\ UNCHANGED <<tokenVars, flowVars, deviceVars, config, apiVars, migrationVars>>

\* Variant: an explicit 'localhost' falls back to the device flow as well.
localhostReturnsAlwaysFallback ==
  /\ init.pc = "awaitLocalhost"
  /\ promise.state # "pending"
  /\ init' =
       IF promise.state = "resolved" THEN [init EXCEPT !.pc = "store"]
       ELSE [init EXCEPT !.pc = "device"]
  /\ UNCHANGED <<tokenVars, flowVars, deviceVars, config, apiVars, migrationVars>>

\* await executeLocalhostFlow() resumes: with the tokens, or with the error,
\* which 'auto' catches to go on with the device flow.
localhostReturns ==
  /\ init.pc = "awaitLocalhost"
  /\ promise.state # "pending"
  /\ init' =
       IF promise.state = "resolved" THEN [init EXCEPT !.pc = "store"]
       ELSE IF init.method = "auto" THEN [init EXCEPT !.pc = "device"]
       ELSE [init EXCEPT !.pc = "done", !.outcome = promise]
  /\ UNCHANGED <<tokenVars, flowVars, deviceVars, config, apiVars, migrationVars>>

\* await executeDeviceFlow() resumes.
deviceReturns ==
  /\ init.pc = "awaitDevice"
  /\ device.pc = "done"
  /\ init' =
       IF device.outcome.state = "resolved" THEN [init EXCEPT !.pc = "store"]
       ELSE [init EXCEPT !.pc = "done", !.outcome = device.outcome]
  /\ UNCHANGED <<tokenVars, flowVars, deviceVars, config, apiVars, migrationVars>>

\* What the middle segment of an id_token is after base64 decoding: text that
\* JSON.parse rejects, the JSON value null, or an object with or without an
\* email member.
Payloads ==
  {[json |-> "invalid", email |-> NoEmail],
   [json |-> "null", email |-> NoEmail],
   [json |-> "object", email |-> NoEmail]}
  \cup {[json |-> "object", email |-> em] : em \in Emails}

\* tokens.id_token as its '.'-separated segments: <<>> when the bundle has
\* none, one segment only, or header.payload.signature
IdTokens == {<<>>} \cup {<<p>> : p \in Payloads}
              \cup {<<[json |-> "object", email |-> NoEmail], p,
                      [json |-> "invalid", email |-> NoEmail]>> : p \in Payloads}

\* the try block of initialize throws: split('.')[1] is undefined, JSON.parse
\* rejects the text, or payload is null
DecodeThrows(id_token) ==
  id_token # <<>> /\ (Len(id_token) < 2 \/ id_token[2].json # "object")

\* the email initialize passes to storeTokens: payload.email, undefined
\* without id_token or when the try block throws
EmailOf(id_token) ==
  IF id_token = <<>> \/ DecodeThrows(id_token) THEN NoEmail
  ELSE id_token[2].email

\* Variant: an id_token that cannot be decoded makes initialize fail.
initializeStoresOrThrows(r, e, id_token, ok) ==
  IF DecodeThrows(id_token)
  THEN /\ init.pc = "store"
       /\ init' = Returned("initialize",
                           [state |-> "rejected", value |-> "Invalid id_token"])
       /\ UNCHANGED <<tokenVars, flowVars, deviceVars, config, apiVars, migrationVars>>
  ELSE storeTokens("initialize", r, e, EmailOf(id_token), ok)

\* initialize with the tokens of a flow: the email is read from the id_token
\* and storeTokens(tokens, email, scopes) is awaited; initialize returns tokens.
initializeStores(r, e, id_token, ok) ==
  storeTokens("initialize", r, e, EmailOf(id_token), ok)

\* ------------------------------------------------------------ file discovery
\* FileDiscovery.fetchAllFiles (src/unnamed/part_006 461-516)
FolderMimeType == "application/vnd.google-apps.folder"

\* isFolder(file)
isFolder(f) == f.mimeType = FolderMimeType

\* What a result page may hold: no files member at all, files only, a folder
\* before a file, folders only.  The files of page k are numbered from 10 k.
PageKinds == {"none", "files", "mixed", "folders"}

PageFiles(k, kind) ==
  CASE kind = "none" -> <<>>
    [] kind = "files" -> <<[id |-> 10 * k + 1, mimeType |-> "application/pdf"],
                           [id |-> 10 * k + 2, mimeType |-> "image/png"]>>
    [] kind = "mixed" -> <<[id |-> 10 * k + 1, mimeType |-> FolderMimeType],
                           [id |-> 10 * k + 2, mimeType |-> "application/pdf"]>>
    [] OTHER -> <<[id |-> 10 * k + 1, mimeType |-> FolderMimeType]>>

\* The result pages Drive holds for the query: one to MaxPages pages.
Drives == UNION {[1..n -> PageKinds] : n \in 1..MaxPages}

\* pageToken: null before the first response and undefined after the last
\* page (both 0); the token Drive gives with page k leads to page k + 1.
NoPageToken == 0

\* batch.filter(file => !this.isFolder(file))
RECURSIVE FilterFolders(_)
FilterFolders(batch) ==
  IF batch = <<>> THEN <<>>
  ELSE IF isFolder(Head(batch)) THEN FilterFolders(Tail(batch))
  ELSE <<Head(batch)>> \o FilterFolders(Tail(batch))

\* The non-folder files of the pages k..Len(drive), in order.
RECURSIVE FilesFrom(_, _)
FilesFrom(drive, k) ==
  IF k > Len(drive) THEN <<>>
  ELSE FilterFolders(PageFiles(k, drive[k])) \o FilesFrom(drive, k + 1)

\* The error of a rejected this.drive.files.list: its code and whether its
\* message includes 'rate' (the match is case-sensitive: 'Rate Limit
\* Exceeded' does not).
ListErrors ==
  {[code |-> 429, message |-> "Too Many Requests"],
   [code |-> 403, message |-> "rate limit exceeded"],
   [code |-> 403, message |-> "Rate Limit Exceeded"],
   [code |-> 403, message |-> "The user does not have sufficient permissions"],
   [code |-> 500, message |-> "Backend Error"]}

\* error.message?.includes('rate')
IncludesRate(message) == message \in {"rate limit exceeded"}

\* isRateLimitError(error)
isRateLimitError(error) ==
  error.code = 429 \/ (error.code = 403 /\ IncludesRate(error.message))

\* the retry-after header of the error response, in seconds: absent, '0', '2'
RetryAfters == {<<>>, <<0>>, <<2>>}

\* the delay of handleRateLimit, in milliseconds; the header value '0' is a
\* non-empty string, so it is used
handleRateLimitDelay(retryAfter) ==
  IF retryAfter # <<>> THEN retryAfter[1] * 1000 ELSE RetryBaseDelay

IdleListing ==
  [pc |-> "idle", drive |-> <<>>, pageToken |-> NoPageToken, allFiles |-> <<>>,
   totalProcessed |-> 0, asked |-> <<>>, limited |-> 0, waited |-> 0,
   outcome |-> Pending]

\* fetchAllFiles ends: return allFiles, or throw.
ListingDone(ls, state) ==
  [ls EXCEPT !.pc = "done", !.outcome = [state |-> state, value |-> ""]]

\* The page a request with this pageToken asks for.
PageAsked(pageToken) == IF pageToken = NoPageToken THEN 1 ELSE pageToken

\* The body of the do-while loop up to its await: this.drive.files.list is
\* called with the current pageToken.
ListRequest(ls) ==
  [ls EXCEPT !.pc = "list", !.asked = Append(@, PageAsked(ls.pageToken))]

\* } while (pageToken): the next iteration, or return allFiles
LoopCondition(ls) ==
  IF ls.pageToken # NoPageToken THEN ListRequest(ls)
  ELSE ListingDone(ls, "resolved")

\* fetchAllFiles(folderId, includeSharedDrives, onProgress) up to its first
\* request, on a Drive whose query result is drive.
fetchAllFiles(drive) ==
  /\ listing.pc \in {"idle", "done"}
  /\ listing' = ListRequest([IdleListing EXCEPT !.drive = drive])
  /\ UNCHANGED <<tokenVars, flowVars, deviceVars, initVars, apiVars, migrator>>

\* this.drive.files.list resolves with the page asked for: its files without
\* the folders are appended, pageToken becomes the page's nextPageToken, and
\* with a token the rate-limit delay is awaited.
listResolves ==
  /\ listing.pc = "list"
  /\ LET k == PageAsked(listing.pageToken)
         batch == PageFiles(k, listing.drive[k])
         next == IF k < Len(listing.drive) THEN k + 1 ELSE NoPageToken
         ls == [listing EXCEPT !.allFiles = @ \o FilterFolders(batch),
                               !.totalProcessed = @ + Len(batch),
                               !.pageToken = next]
     IN listing' = IF next # NoPageToken THEN [ls EXCEPT !.pc = "delay"]
                   ELSE LoopCondition(ls)
  /\ UNCHANGED <<tokenVars, flowVars, deviceVars, initVars, apiVars, migrator>>

\* rateLimitDelay() ends; the loop condition is tested.
rateLimitDelayEnds ==
  /\ listing.pc = "delay"
  /\ listing' = LoopCondition(listing)
  /\ UNCHANGED <<tokenVars, flowVars, deviceVars, initVars, apiVars, migrator>>

\* this.drive.files.list rejects: a rate-limit error starts the wait of
\* handleRateLimit, any other error is rethrown.
listRejects(error, retryAfter) ==
  /\ listing.pc = "list"
  /\ isRateLimitError(error) => listing.limited < MaxRateLimits
  /\ listing' =
       IF isRateLimitError(error)
       THEN [listing EXCEPT !.pc = "backoff", !.limited = @ + 1,
                            !.waited = handleRateLimitDelay(retryAfter)]
       ELSE ListingDone(listing, "rejected")
  /\ UNCHANGED <<tokenVars, flowVars, deviceVars, initVars, apiVars, migrator>>

\* The wait of handleRateLimit ends; `continue` goes to the loop condition.
handleRateLimitEnds ==
  /\ listing.pc = "backoff"
  /\ listing' = LoopCondition(listing)
  /\ UNCHANGED <<tokenVars, flowVars, deviceVars, initVars, apiVars, migrator>>

\* ------------------------------------------------------- binary file migrator
\* BinaryFileMigrator (src/unnamed/part_008) and its ProgressTracker
\* (src/src/lib/migration/progresstrack.js).  The k-th file of the n-th
\* migrateFiles call has id 10 n + k.
FileId(n, k) == 10 * n + k

\* ProgressTracker.reset(), as the constructor calls it
NewProgress == [total |-> 0, completed |-> 0, failed |-> 0, isComplete |-> FALSE]

\* ProgressTracker.start(total)
ProgressStart(progress, total) == [progress EXCEPT !.total = total]

\* ProgressTracker.getStatus(): the counts
getStatus(progress) ==
  [total |-> progress.total, completed |-> progress.completed,
   failed |-> progress.failed,
   processed |-> progress.completed + progress.failed,
   remaining |-> progress.total - (progress.completed + progress.failed),
   isComplete |-> progress.isComplete]

\* new BinaryFileMigrator(driveClient, lighthouseClient)
NewMigrator ==
  [pc |-> "idle", calls |-> 0, files |-> 0, batchSize |-> 0, i |-> 0,
   inFlight |-> {}, migrations |-> <<>>, failures |-> <<>>,
   isRunning |-> FALSE, shouldStop |-> FALSE, progress |-> NewProgress,
   results |-> <<>>, outcome |-> Pending]

\* options.batchSize: one file at a time, or MIGRATION.DEFAULT_BATCH_SIZE
BatchSizes == {1, DefaultBatchSize}

\* generateResults(): the summary
generateResults(m) ==
  [total |-> Len(m.migrations) + Len(m.failures),
   completed |-> Len(m.migrations),
   failed |-> Len(m.failures),
   stopped |-> m.shouldStop]

\* migrateFiles ends, by return or throw: the finally block clears isRunning
\* and calls progress.complete().
MigrateDone(m, state, results) ==
  [m EXCEPT !.pc = "done", !.isRunning = FALSE, !.inFlight = {},
            !.progress.isComplete = TRUE, !.results = results,
            !.outcome = [state |-> state, value |-> ""]]

\* The for loop of processBatches at its condition: the next batch is sliced
\* and migrateFile is called for each of its files, or processBatches returns
\* and migrateFiles returns generateResults().
BatchLoop(m) ==
  IF m.i < m.files /\ ~m.shouldStop
  THEN [m EXCEPT !.pc = "batch",
                 !.inFlight = {k \in 1..m.files :
                                 m.i < k /\ k <= m.i + m.batchSize}]
  ELSE MigrateDone(m, "resolved", <<generateResults(m)>>)

\* migrateFiles(files, options) with n files, up to its first await: the
\* quota check when it is asked for and the files have sizes, else the first
\* batch.
migrateFiles(n, batchSize, validateQuota, sized) ==
  /\ migrator.pc \in {"idle", "done"}
  /\ migrator.calls < MaxCalls
  /\ LET m == [migrator EXCEPT !.calls = @ + 1, !.files = n,
                               !.batchSize = batchSize, !.i = 0,
                               !.isRunning = TRUE, !.shouldStop = FALSE,
                               !.progress = ProgressStart(@, n),
                               !.results = <<>>, !.outcome = Pending]
     IN migrator' = IF validateQuota /\ sized /\ n > 0
                    THEN [m EXCEPT !.pc = "quota"]
                    ELSE BatchLoop(m)
  /\ UNCHANGED <<tokenVars, flowVars, deviceVars, initVars, apiVars, listing>>

\* lighthouse.checkStorageQuota answers: validateStorageQuota throws
\* INSUFFICIENT_QUOTA, or the batches begin.
quotaChecked(sufficient) ==
  /\ migrator.pc = "quota"
  /\ migrator' = IF sufficient THEN BatchLoop(migrator)
                 ELSE MigrateDone(migrator, "rejected", <<>>)
  /\ UNCHANGED <<tokenVars, flowVars, deviceVars, initVars, apiVars, listing>>

\* migrateFile(file) of the batch settles for file k: the migration is pushed
\* and counted, or (download or upload failed) the failure is.
migrateFile(k, ok) ==
  /\ migrator.pc = "batch"
  /\ k \in migrator.inFlight
  /\ migrator' =
       IF ok
       THEN [migrator EXCEPT
               !.inFlight = @ \ {k},
               !.migrations = Append(@, FileId(migrator.calls, k)),
               !.progress.completed = @ + 1]
       ELSE [migrator EXCEPT
               !.inFlight = @ \ {k},
               !.failures = Append(@, FileId(migrator.calls, k)),
               !.progress.failed = @ + 1]
  /\ UNCHANGED <<tokenVars, flowVars, deviceVars, initVars, apiVars, listing>>

\* Promise.allSettled(batchPromises) resolves: the rate-limit delay is
\* awaited when files remain, else the loop goes on with i += batchSize.
batchSettled ==
  /\ migrator.pc = "batch"
  /\ migrator.inFlight = {}
  /\ migrator' =
       IF migrator.i + migrator.batchSize < migrator.files /\ ~migrator.shouldStop
       THEN [migrator EXCEPT !.pc = "delay"]
       ELSE BatchLoop([migrator EXCEPT !.i = @ + migrator.batchSize])
  /\ UNCHANGED <<tokenVars, flowVars, deviceVars, initVars, apiVars, listing>>

\* rateLimitDelay() of the migrator ends.
migratorDelayEnds ==
  /\ migrator.pc = "delay"
  /\ migrator' = BatchLoop([migrator EXCEPT !.i = @ + migrator.batchSize])
  /\ UNCHANGED <<tokenVars, flowVars, deviceVars, initVars, apiVars, listing>>

\* stop(), called while a migration runs
stop ==
  /\ migrator.isRunning
  /\ ~migrator.shouldStop
  /\ migrator' = [migrator EXCEPT !.shouldStop = TRUE]
  /\ UNCHANGED <<tokenVars, flowVars, deviceVars, initVars, apiVars, listing>>

\* ----------------------------------------------------------- specifications
\* Nothing is stored, no invocation is in progress, and no localhost attempt
\* has been started.
InitToken ==
  /\ now = 1
  /\ keytar \in BOOLEAN
  /\ file = <<>>
  /\ vault = [e \in Emails |-> <<>>]
  /\ issued = 0
  /\ call = [c \in Callers |-> IdleCall]
  /\ server = [state |-> "none", port |-> 0]
  /\ closeCalls = 0
  /\ timer = "none"
  /\ promise = [state |-> "pending", value |-> ""]
  /\ requests = <<>>
  /\ exchanges = 0
  /\ sent = <<>>
  /\ pkce = generatePKCEPair(0)
  /\ generated = 0
  /\ authUrl = Null
  /\ device = IdleDevice
  /\ clock = 0
  /\ init = IdleInit
  /\ config = [clientId |-> "id", clientSecret |-> "secret"]
  /\ op = NoOp
  /\ writing = <<>>
  /\ listing = IdleListing
  /\ migrator = NewMigrator

\* The token manager used by one caller at a time, beside initialize/logout.
NextToken ==
  \/ Tick
  \/ \E r \in 0..MaxIssued, e \in ExpiresIn, em \in Emails \cup {NoEmail},
        ok \in BOOLEAN : storeTokens("direct", r, e, em, ok)
  \/ \E ok \in BOOLEAN : logout("direct", TRUE, "ok", ok)
  \/ getValidAccessToken("c1")
  \/ tokenEndpoint("c1")
  \/ refreshAccessToken("c1")
  \/ updateTokens("c1")
  \/ updateKeyring("c1")
  \/ updateFile("c1")

SpecToken == InitToken /\ [][NextToken]_vars

\* The token manager called by overlapping callers of one process; the
\* keyring writes and deletes of storeTokens and logout go through.
NextRace ==
  \/ Tick
  \/ \E r \in 0..MaxIssued, e \in ExpiresIn, em \in Emails \cup {NoEmail} :
        storeTokens("direct", r, e, em, TRUE)
  \/ logout("direct", TRUE, "ok", TRUE)
  \/ \E c \in Callers : getValidAccessToken(c)
  \/ \E c \in Callers : tokenEndpoint(c)
  \/ \E c \in Callers : refreshAccessToken(c)
  \/ \E c \in Callers : updateTokens(c)
  \/ \E c \in Callers : updateKeyring(c)
  \/ \E c \in Callers : updateFile(c)

SpecRace == InitToken /\ [][NextRace]_vars

\* Attempts of the localhost flow, nothing stored yet and no attempt started.
InitFlow ==
  /\ now = 1
  /\ keytar \in BOOLEAN
  /\ file = <<>>
  /\ vault = [e \in Emails |-> <<>>]
  /\ issued = 0
  /\ call = [c \in Callers |-> IdleCall]
  /\ server = [state |-> "none", port |-> 0]
  /\ closeCalls = 0
  /\ timer = "none"
  /\ promise = [state |-> "pending", value |-> ""]
  /\ requests = <<>>
  /\ exchanges = 0
  /\ sent = <<>>
  /\ pkce = generatePKCEPair(0)
  /\ generated = 0
  /\ authUrl = Null
  /\ device = IdleDevice
  /\ clock = 0
  /\ init = IdleInit
  /\ config = [clientId |-> "id", clientSecret |-> "secret"]
  /\ op = NoOp
  /\ writing = <<>>
  /\ listing = IdleListing
  /\ migrator = NewMigrator

NextFlow ==
  \/ executeLocalhostFlow("direct")
  \/ listenFails
  \/ serverReady
  \/ \E q \in Queries : requestHandler(q)
  \/ \E i \in 1..MaxRequests, ok \in BOOLEAN : exchangeCompletes(i, ok)
  \/ timeoutFires

SpecFlow == InitFlow /\ [][NextFlow]_vars

\* The device flow, called on its own.
InitDevice ==
  /\ now = 1
  /\ keytar \in BOOLEAN
  /\ file = <<>>
  /\ vault = [e \in Emails |-> <<>>]
  /\ issued = 0
  /\ call = [c \in Callers |-> IdleCall]
  /\ server = [state |-> "none", port |-> 0]
  /\ closeCalls = 0
  /\ timer = "none"
  /\ promise = [state |-> "pending", value |-> ""]
  /\ requests = <<>>
  /\ exchanges = 0
  /\ sent = <<>>
  /\ pkce = generatePKCEPair(0)
  /\ generated = 0
  /\ authUrl = Null
  /\ device = IdleDevice
  /\ clock = 0
  /\ init = IdleInit
  /\ config = [clientId |-> "id", clientSecret |-> "secret"]
  /\ op = NoOp
  /\ writing = <<>>
  /\ listing = IdleListing
  /\ migrator = NewMigrator

NextDevice ==
  \/ executeDeviceFlow("direct")
  \/ \E ok \in BOOLEAN, interval \in Intervals, expires_in \in Lifetimes,
        d \in Delays : deviceCodeResponse(ok, interval, expires_in, d)
  \/ \E late \in Delays : pollTimerFires(late)
  \/ \E answer \in PollAnswers, d \in Delays : pollResponse(answer, d)

SpecDevice == InitDevice /\ [][NextDevice]_vars

\* A record left by an earlier run of the CLI.
EarlierRecord ==
  StoredData(Tokens(1, 1, ExpiryDate(11, 1)), "user@example.com",
             getScopesArray, 1, None)

\* The requests followed under initialize: another path, a denial, a code.
InitQueries ==
  {[path |-> "/favicon.ico", error |-> Null, code |-> Null],
   [path |-> CallbackPath, error |-> <<"v">>, code |-> Null],
   [path |-> CallbackPath, error |-> Null, code |-> <<"v">>]}

\* initialize called again and again by one process with a working keyring,
\* whose environment may lack the client id or the client secret, possibly
\* over an earlier record.
InitInit ==
  /\ now = 1
  /\ keytar = TRUE
  /\ \E stored \in BOOLEAN :
       /\ file = IF stored THEN <<EarlierRecord>> ELSE <<>>
       /\ vault = [e \in Emails |->
                     IF stored /\ keytar /\ e = EarlierRecord.email
                     THEN <<EarlierRecord>> ELSE <<>>]
       /\ issued = IF stored THEN 1 ELSE 0
  /\ call = [c \in Callers |-> IdleCall]
  /\ server = [state |-> "none", port |-> 0]
  /\ closeCalls = 0
  /\ timer = "none"
  /\ promise = [state |-> "pending", value |-> ""]
  /\ requests = <<>>
  /\ exchanges = 0
  /\ sent = <<>>
  /\ pkce = generatePKCEPair(0)
  /\ generated = 0
  /\ authUrl = Null
  /\ device = IdleDevice
  /\ clock = 0
  /\ init = IdleInit
  /\ config \in Configs
  /\ op = NoOp
  /\ writing = <<>>
  /\ listing = IdleListing
  /\ migrator = NewMigrator

NextInit ==
  \/ \E m \in Methods : initialize(m)
  \/ executeLocalhostFlow("initialize")
  \/ listenFails
  \/ serverReady
  \/ \E q \in InitQueries : requestHandler(q)
  \/ \E i \in 1..MaxRequests, ok \in BOOLEAN : exchangeCompletes(i, ok)
  \/ timeoutFires
  \/ localhostReturns
  \/ executeDeviceFlow("initialize")
  \/ \E ok \in BOOLEAN : deviceCodeResponse(ok, 0, MaxLifetime, 0)
  \/ pollTimerFires(0)
  \/ \E answer \in {"ok", "authorization_pending", "access_denied"} :
       pollResponse(answer, 0)
  \/ deviceReturns
  \/ \E r \in 1..MaxIssued, id_token \in IdTokens :
       initializeStores(r, 11, id_token, TRUE)

SpecInit == InitInit /\ [][NextInit]_vars

\* ------------------------------------------------------------ storage API
\* retrieveTokens(email?) returns to a caller of the API.
retrieveTokensReturns(email) ==
  /\ Called("api", "retrieve")
  /\ op' = Reported("api", "retrieveTokens", email, retrieveTokens(email), 0)
  /\ UNCHANGED <<tokenVars, flowVars, deviceVars, initVars, writing, migrationVars>>

\* Variant: with an email the file is left to the keyring's answer.
deleteTokensKeyringOrFile(caller, email, ok) ==
  /\ Called(caller, "delete")
  /\ vault' = IF email # NoEmail /\ keytar
               THEN deleteFromKeyring(email, ok) ELSE vault
  /\ file' = IF email # NoEmail /\ keytar THEN file ELSE <<>>
  /\ op' = Reported(caller, "deleteTokens", email, "resolved", 0)
  /\ UNCHANGED <<now, keytar, issued, call, flowVars, deviceVars, initVars, writing, migrationVars>>

\* deleteTokens(email?): deleteFromKeyring when an email is given and keytar
\* is loaded (a throwing keytar, ok = FALSE, is swallowed), then
\* deleteFromFile, whose unlink error for a missing file is swallowed too.
deleteTokens(caller, email, ok) ==
  /\ Called(caller, "delete")
  /\ vault' = IF email # NoEmail /\ keytar
               THEN deleteFromKeyring(email, ok) ELSE vault
  /\ file' = <<>>
  /\ op' = Reported(caller, "deleteTokens", email, "resolved", 0)
  /\ UNCHANGED <<now, keytar, issued, call, flowVars, deviceVars, initVars, writing, migrationVars>>

\* what the revoke request may be answered with
RevokeAnswers == {"ok", "http", "network"}

\* The storage API and logout called one after the other by one client.
InitStore ==
  /\ now = 1
  /\ keytar \in BOOLEAN
  /\ file = <<>>
  /\ vault = [e \in Emails |-> <<>>]
  /\ issued = 0
  /\ call = [c \in Callers |-> IdleCall]
  /\ server = [state |-> "none", port |-> 0]
  /\ closeCalls = 0
  /\ timer = "none"
  /\ promise = [state |-> "pending", value |-> ""]
  /\ requests = <<>>
  /\ exchanges = 0
  /\ sent = <<>>
  /\ pkce = generatePKCEPair(0)
  /\ generated = 0
  /\ authUrl = Null
  /\ device = IdleDevice
  /\ clock = 0
  /\ init = IdleInit
  /\ config = [clientId |-> "id", clientSecret |-> "secret"]
  /\ op = NoOp
  /\ writing = <<>>
  /\ listing = IdleListing
  /\ migrator = NewMigrator

NextStore ==
  \/ \E r \in 0..MaxIssued, e \in ExpiresIn, em \in Emails \cup {NoEmail},
        ok \in BOOLEAN : storeTokens("api", r, e, em, ok)
  \/ \E email \in Emails \cup {NoEmail} : retrieveTokensReturns(email)
  \/ \E email \in Emails \cup {NoEmail}, ok \in BOOLEAN :
        deleteTokens("api", email, ok)
  \/ \E revokeToken \in BOOLEAN, answer \in RevokeAnswers, ok \in BOOLEAN :
        logout("api", revokeToken, answer, ok)

SpecStore == InitStore /\ [][NextStore]_vars

\* ------------------------------------------------------------------ status
\* the undefined of minutesUntilExpiry, which may be 0 when defined
Undefined == -1

\* getStorageType(email?)
getStorageType(email) ==
  IF email # NoEmail /\ keytar /\ retrieveFromKeyring(email) # <<>>
  THEN "keyring"
  ELSE IF retrieveFromFile # <<>> THEN "file" ELSE "null"

\* Variant: the status applies the refresh margin.
getTokenExpiryWithMargin ==
  LET storedData == retrieveTokens(NoEmail)
  IN IF storedData = <<>> \/ storedData[1].tokens.expiry_date = None THEN <<>>
     ELSE LET expiryDate == storedData[1].tokens.expiry_date
              isExpired == isTokenExpired(expiryDate, DefaultBufferMinutes, now)
          IN <<[expiresAt |-> expiryDate,
                isExpired |-> isExpired,
                minutesUntilExpiry |->
                  IF ~isExpired THEN (expiryDate - now) \div TicksPerMinute
                  ELSE Undefined]>>

\* getTokenExpiry(): null (<<>>) without a record or without expiry_date
getTokenExpiry ==
  LET storedData == retrieveTokens(NoEmail)
  IN IF storedData = <<>> \/ storedData[1].tokens.expiry_date = None THEN <<>>
     ELSE LET expiryDate == storedData[1].tokens.expiry_date
              isExpired == isTokenExpired(expiryDate, 0, now)
          IN <<[expiresAt |-> expiryDate,
                isExpired |-> isExpired,
                minutesUntilExpiry |->
                  IF ~isExpired THEN (expiryDate - now) \div TicksPerMinute
                  ELSE Undefined]>>

\* The AuthStatus with every member present; undefined members are None,
\* NoEmail or "undefined".
AuthStatus(authenticated, email, scopes, expiresAt, storageType, lastRefreshed) ==
  [authenticated |-> authenticated, email |-> email, scopes |-> scopes,
   expiresAt |-> expiresAt, storageType |-> storageType,
   lastRefreshed |-> lastRefreshed]

\* Variant: a record whose token has expired is reported as no session.
getAuthStatusValidOnly ==
  LET data == retrieveTokens(NoEmail)
      expiry == getTokenExpiry
  IN IF data = <<>> \/ (expiry # <<>> /\ expiry[1].isExpired)
     THEN AuthStatus(FALSE, NoEmail, <<>>, None, "undefined", None)
     ELSE AuthStatus(TRUE, data[1].email, data[1].scopes,
                     IF expiry = <<>> THEN None ELSE expiry[1].expiresAt,
                     IF getStorageType(data[1].email) = "null" THEN "undefined"
                     ELSE getStorageType(data[1].email),
                     data[1].lastRefreshedAt)

\* getAuthStatus()
getAuthStatus ==
  LET data == retrieveTokens(NoEmail)
      expiry == getTokenExpiry
  IN IF data = <<>>
     THEN AuthStatus(FALSE, NoEmail, <<>>, None, "undefined", None)
     ELSE AuthStatus(TRUE, data[1].email, data[1].scopes,
                     IF expiry = <<>> THEN None ELSE expiry[1].expiresAt,
                     IF getStorageType(data[1].email) = "null" THEN "undefined"
                     ELSE getStorageType(data[1].email),
                     data[1].lastRefreshedAt)

\* Variant: the status call renews a token that has expired.
getAuthStatusRefreshes ==
  /\ Called("api", "status")
  /\ op' = Reported("api", "getAuthStatus", <<>>, getAuthStatus,
                    IF getTokenExpiry # <<>> /\ getTokenExpiry[1].isExpired
                    THEN 1 ELSE 0)
  /\ file' = IF getTokenExpiry # <<>> /\ getTokenExpiry[1].isExpired
             THEN storeInFile(UpdatedData(file[1],
                    Tokens(file[1].tokens.access_token,
                           file[1].tokens.refresh_token,
                           ExpiryDate(1, now)), now))
             ELSE file
  /\ UNCHANGED <<now, keytar, vault, issued, call, flowVars, deviceVars,
                 initVars, writing, migrationVars>>

\* getAuthStatus() returns to a caller of the API.
getAuthStatusReturns ==
  /\ Called("api", "status")
  /\ op' = Reported("api", "getAuthStatus", <<>>, getAuthStatus, 0)
  /\ UNCHANGED <<tokenVars, flowVars, deviceVars, initVars, writing, migrationVars>>

\* getTokenExpiry() returns to a caller of the API.
getTokenExpiryReturns ==
  /\ Called("api", "expiry")
  /\ op' = Reported("api", "getTokenExpiry", <<>>, getTokenExpiry, 0)
  /\ UNCHANGED <<tokenVars, flowVars, deviceVars, initVars, writing, migrationVars>>

\* The callback request of a user who consents, the only request made.
ConsentQuery == [path |-> CallbackPath, error |-> Null, code |-> <<"v">>]

\* The id_token of a bundle: none, or one whose payload names the user.
SignedIn ==
  {<<>>} \cup {<<[json |-> "object", email |-> NoEmail],
                 [json |-> "object", email |-> em],
                 [json |-> "invalid", email |-> NoEmail]>> : em \in Emails}

\* One process that signs in through the localhost flow, which succeeds, asks
\* for its status and logs out, while time passes.
InitStatus ==
  /\ now = 1
  /\ keytar \in BOOLEAN
  /\ file = <<>>
  /\ vault = [e \in Emails |-> <<>>]
  /\ issued = 0
  /\ call = [c \in Callers |-> IdleCall]
  /\ server = [state |-> "none", port |-> 0]
  /\ closeCalls = 0
  /\ timer = "none"
  /\ promise = [state |-> "pending", value |-> ""]
  /\ requests = <<>>
  /\ exchanges = 0
  /\ sent = <<>>
  /\ pkce = generatePKCEPair(0)
  /\ generated = 0
  /\ authUrl = Null
  /\ device = IdleDevice
  /\ clock = 0
  /\ init = IdleInit
  /\ config = [clientId |-> "id", clientSecret |-> "secret"]
  /\ op = NoOp
  /\ writing = <<>>
  /\ listing = IdleListing
  /\ migrator = NewMigrator

NextStatus ==
  \/ Tick
  \/ initialize("localhost")
  \/ executeLocalhostFlow("initialize")
  \/ serverReady
  \/ requests = <<>> /\ requestHandler(ConsentQuery)
  \/ exchangeCompletes(1, TRUE)
  \/ localhostReturns
  \/ \E r \in 0..MaxIssued, e \in ExpiresIn, id_token \in SignedIn :
        initializeStores(r, e, id_token, TRUE)
  \/ \E revokeToken \in BOOLEAN : logout("api", revokeToken, "ok", TRUE)
  \/ getAuthStatusReturns
  \/ getTokenExpiryReturns

SpecStatus == InitStatus /\ [][NextStatus]_vars

\* ------------------------------------------------------------- file writes
\* fs.writeFile(tokenPath, text) opens the file with truncation, writes the
\* text and closes it, in separate steps of the thread pool: from the first
\* of them to the last the file holds a prefix of the text, which JSON.parse
\* rejects (retrieveFromFile). by is "store", or the invocation that writes
\* in updateTokens; kind is what storeTokens is going to return.
Write(data, by, kind) == [data |-> data, by |-> by, kind |-> kind]

\* storeTokens(tokens, email) up to the moment fs.writeFile has opened the file
storeTokensWrites(r, e, em, ok) ==
  /\ Called("api", "store")
  /\ writing = <<>>
  /\ issued < MaxIssued
  /\ r \in {None, issued + 1}
  /\ LET data == StoredData(Tokens(issued + 1, r, ExpiryDate(e, now)), em,
                             ScopesPassed("api"), now, None)
     IN /\ vault' = IF em # NoEmail /\ keytar
                    THEN storeInKeyring(em, data, ok) ELSE vault
        /\ writing' = <<Write(data, "store",
                              IF em # NoEmail /\ keytar /\ storedInKeyring(ok)
                              THEN "keyring" ELSE "file")>>
  /\ issued' = issued + 1
  /\ UNCHANGED <<now, keytar, file, call, flowVars, deviceVars, initVars, op, migrationVars>>

\* updateTokens, last part, up to the moment fs.writeFile has opened the file
updateFileWrites(c) ==
  /\ call[c].pc = "write"
  /\ writing = <<>>
  /\ writing' = <<Write(call[c].updatedData[1], c, "file")>>
  /\ call' = [call EXCEPT ![c].pc = "writing"]
  /\ UNCHANGED <<now, keytar, file, vault, issued, flowVars, deviceVars,
                 initVars, op, migrationVars>>

\* fs.writeFile resolves: the text is in the file, and storeTokens returns
\* the storage kind, or getValidAccessToken the new access token.
writeFileCompletes ==
  /\ writing # <<>>
  /\ file' = storeInFile(writing[1].data)
  /\ writing' = <<>>
  /\ IF writing[1].by = "store"
     THEN /\ op' = Reported("api", "storeTokens", writing[1].data,
                            writing[1].kind, 0)
          /\ call' = call
     ELSE /\ call' = [call EXCEPT ![writing[1].by] =
                 DoneCall(Ok(call[writing[1].by].newTokens[1].access_token),
                          call[writing[1].by].nreq)]
          /\ op' = op
  /\ UNCHANGED <<now, keytar, vault, issued, flowVars, deviceVars, initVars, migrationVars>>

\* One client that stores and refreshes while another task of the process,
\* or another process of the user, reads the record.
InitWrite ==
  /\ now = 1
  /\ keytar \in BOOLEAN
  /\ file = <<>>
  /\ vault = [e \in Emails |-> <<>>]
  /\ issued = 0
  /\ call = [c \in Callers |-> IdleCall]
  /\ server = [state |-> "none", port |-> 0]
  /\ closeCalls = 0
  /\ timer = "none"
  /\ promise = [state |-> "pending", value |-> ""]
  /\ requests = <<>>
  /\ exchanges = 0
  /\ sent = <<>>
  /\ pkce = generatePKCEPair(0)
  /\ generated = 0
  /\ authUrl = Null
  /\ device = IdleDevice
  /\ clock = 0
  /\ init = IdleInit
  /\ config = [clientId |-> "id", clientSecret |-> "secret"]
  /\ op = NoOp
  /\ writing = <<>>
  /\ listing = IdleListing
  /\ migrator = NewMigrator

NextWrite ==
  \/ \E r \in 0..MaxIssued, e \in ExpiresIn, em \in Emails \cup {NoEmail},
        ok \in BOOLEAN : storeTokensWrites(r, e, em, ok)
  \/ writeFileCompletes
  \/ \E email \in Emails \cup {NoEmail} : retrieveTokensReturns(email)
  \/ getValidAccessToken("c1")
  \/ tokenEndpoint("c1")
  \/ refreshAccessToken("c1")
  \/ updateTokens("c1")
  \/ updateKeyring("c1")
  \/ updateFileWrites("c1")

SpecWrite == InitWrite /\ [][NextWrite]_vars

\* ----------------------------------------------------------------- pkce
\* the number of random bytes of a verifier, of bytes of a SHA-256 digest,
\* and the lengths isValidCodeVerifier accepts
RandomByteCount == 32
DigestByteCount == 32
MinVerifierLength == 43
MaxVerifierLength == 128

\* strings are sequences of one-character strings, buffers sequences of bytes
Base64Alphabet ==
  <<"A", "B", "C", "D", "E", "F", "G", "H", "I", "J", "K", "L", "M",
    "N", "O", "P", "Q", "R", "S", "T", "U", "V", "W", "X", "Y", "Z",
    "a", "b", "c", "d", "e", "f", "g", "h", "i", "j", "k", "l", "m",
    "n", "o", "p", "q", "r", "s", "t", "u", "v", "w", "x", "y", "z",
    "0", "1", "2", "3", "4", "5", "6", "7", "8", "9", "+", "/">>

\* [A-Za-z0-9\-._~]
Unreserved ==
  ({Base64Alphabet[i] : i \in 1..64} \ {"+", "/"}) \cup {"-", ".", "_", "~"}

\* buffer.toString('base64'): three bytes give four characters, and a last
\* group of one or two bytes is padded with '='
RECURSIVE toBase64(_)
toBase64(buffer) ==
  LET b(k) == buffer[k]
      ch(sextet) == Base64Alphabet[sextet + 1]
  IN IF Len(buffer) = 0 THEN <<>>
     ELSE IF Len(buffer) = 1
     THEN <<ch(b(1) \div 4), ch((b(1) % 4) * 16), "=", "=">>
     ELSE IF Len(buffer) = 2
     THEN <<ch(b(1) \div 4), ch((b(1) % 4) * 16 + b(2) \div 16),
            ch((b(2) % 16) * 4), "=">>
     ELSE <<ch(b(1) \div 4), ch((b(1) % 4) * 16 + b(2) \div 16),
            ch((b(2) % 16) * 4 + b(3) \div 64), ch(b(3) % 64)>>
          \o toBase64(SubSeq(buffer, 4, Len(buffer)))

\* Variant: the base64 text is returned as it is.
base64Encode(buffer) == toBase64(buffer)

\* base64URLEncode(buffer): '+' becomes '-', '/' becomes '_', '=' is removed
base64URLEncode(buffer) ==
  LET text == toBase64(buffer)
      replaced == [k \in DOMAIN text |->
                     IF text[k] = "+" THEN "-"
                     ELSE IF text[k] = "/" THEN "_" ELSE text[k]]
      NotPadding(c) == c # "="
  IN SelectSeq(replaced, NotPadding)

\* the characters a text of the model may hold, numbered
Characters == Base64Alphabet \o <<"-", "_", "=", ".", "~">>

CharCode ==
  [c \in {Characters[k] : k \in DOMAIN Characters} |->
     CHOOSE k \in DOMAIN Characters : Characters[k] = c]

\* A stand-in for crypto.createHash('sha256').update(text).digest(): some
\* fixed function from texts to buffers of 32 bytes. Only these two facts
\* about SHA-256 are used.
RECURSIVE Mixed(_, _, _)
Mixed(text, k, byte) ==
  IF k > Len(text) THEN 0
  ELSE (CharCode[text[k]] * (k + 7 * byte) + Mixed(text, k + 1, byte)) % 256

sha256(text) == [byte \in 1..DigestByteCount |-> Mixed(text, 1, byte)]

\* generateCodeVerifier() with crypto.randomBytes(32) giving buffer
generateCodeVerifierFrom(buffer) == base64URLEncode(buffer)

\* generateCodeChallenge(codeVerifier), at the level of characters
generateCodeChallengeOf(codeVerifier) == base64URLEncode(sha256(codeVerifier))

\* generatePKCEPair() with crypto.randomBytes(32) giving buffer
generatePKCEPairFrom(buffer) ==
  LET codeVerifier == generateCodeVerifierFrom(buffer)
  IN [codeVerifier |-> codeVerifier,
      codeChallenge |-> generateCodeChallengeOf(codeVerifier)]

\* isValidCodeVerifier(verifier)
isValidCodeVerifier(verifier) ==
  /\ ~(Len(verifier) < MinVerifierLength \/ Len(verifier) > MaxVerifierLength)
  /\ Len(verifier) > 0
  /\ \A k \in DOMAIN verifier : verifier[k] \in Unreserved

\* The bytes the sampled buffers are made of: they give the sextets 62 and
\* 63 ('+' and '/') in each of the four positions of a group.
SampleBytes == {0, 190, 239, 251, 255}

\* crypto.randomBytes(32) giving the bytes a, b, c over and over
RandomBuffer(a, b, c) ==
  [k \in 1..RandomByteCount |->
     IF k % 3 = 1 THEN a ELSE IF k % 3 = 2 THEN b ELSE c]

\* generatePKCEPair() returns
generatePKCEPairReturns(a, b, c) ==
  /\ pkce' = generatePKCEPairFrom(RandomBuffer(a, b, c))
  /\ UNCHANGED <<server, closeCalls, timer, promise, requests, exchanges, sent,
                 generated, authUrl, tokenVars, deviceVars, initVars, apiVars, migrationVars>>

\* A process that generates PKCE pairs.
InitPkce ==
  /\ now = 1
  /\ keytar = TRUE
  /\ file = <<>>
  /\ vault = [e \in Emails |-> <<>>]
  /\ issued = 0
  /\ call = [c \in Callers |-> IdleCall]
  /\ server = [state |-> "none", port |-> 0]
  /\ closeCalls = 0
  /\ timer = "none"
  /\ promise = [state |-> "pending", value |-> ""]
  /\ requests = <<>>
  /\ exchanges = 0
  /\ sent = <<>>
  /\ pkce = generatePKCEPairFrom(RandomBuffer(0, 0, 0))
  /\ generated = 0
  /\ authUrl = Null
  /\ device = IdleDevice
  /\ clock = 0
  /\ init = IdleInit
  /\ config = [clientId |-> "id", clientSecret |-> "secret"]
  /\ op = NoOp
  /\ writing = <<>>
  /\ listing = IdleListing
  /\ migrator = NewMigrator

NextPkce ==
  \E a \in SampleBytes, b \in SampleBytes, c \in SampleBytes :
    generatePKCEPairReturns(a, b, c)

SpecPkce == InitPkce /\ [][NextPkce]_vars

\* ------------------------------------------------------------------ claims
\* The 5-minute safety margin, in ticks.
Margin == DefaultBufferMinutes * TicksPerMinute

\* The record getValidAccessToken reads has an expiry more than 5 minutes away.
Fresh ==
  /\ file # <<>>
  /\ file[1].tokens.expiry_date # None
  /\ file[1].tokens.expiry_date - now > Margin

\* The record getValidAccessToken reads is within the margin, or has no expiry.
Stale ==
  /\ file # <<>>
  /\ \/ file[1].tokens.expiry_date = None
     \/ file[1].tokens.expiry_date - now <= Margin

StoresUnchanged == file' = file /\ vault' = vault

\* C1: for a stored record whose expiry is more than 5 minutes after now,
\* getValidAccessToken returns exactly the stored access token, sends no
\* request to the token endpoint and writes nothing to the file or the vault.
C1_FreshTokenFromCache ==
  [][\A c \in Callers :
       (getValidAccessToken(c) /\ Fresh) =>
         /\ call'[c].pc = "done"
         /\ call'[c].result = Ok(file[1].tokens.access_token)
         /\ call'[c].nreq = 0
         /\ StoresUnchanged]_vars

C1_Witness ==
  \E c \in Callers :
    /\ Fresh
    /\ call[c].pc = "done"
    /\ call[c].nreq = 0
    /\ call[c].result = Ok(file[1].tokens.access_token)

\* C2: a refresh of a stale record with refresh token R persists the access
\* token of the response, the expiry derived from the response, and as refresh
\* token R when the response carries none, the response's when it carries one.
C2_RefreshMerge ==
  [][\A c \in Callers :
       /\ (getValidAccessToken(c) /\ call'[c].pc = "fetch") =>
            call'[c].refreshToken = file[1].tokens.refresh_token
       /\ (refreshAccessToken(c) /\ call[c].response[1].kind = "ok") =>
            call'[c].newTokens[1].expiry_date =
              IF call[c].response[1].expires_in = 0 THEN None
              ELSE now + call[c].response[1].expires_in
       /\ updateFile(c) =>
            /\ file' # <<>>
            /\ file'[1].tokens.access_token = call[c].response[1].access_token
            /\ file'[1].tokens.refresh_token =
                 IF call[c].response[1].refresh_token = None
                 THEN call[c].refreshToken
                 ELSE call[c].response[1].refresh_token
            /\ file'[1].tokens.expiry_date = call[c].newTokens[1].expiry_date
            /\ call'[c].result = Ok(call[c].response[1].access_token)]_vars

\* A refresh without rotation has been persisted: the stored refresh token is
\* older than the stored access token.
C2_Witness ==
  \E c \in Callers :
    /\ call[c].pc = "done"
    /\ call[c].nreq = 1
    /\ file # <<>>
    /\ call[c].result = Ok(file[1].tokens.access_token)
    /\ file[1].tokens.refresh_token # None
    /\ file[1].tokens.refresh_token < file[1].tokens.access_token
    /\ file[1].lastRefreshedAt # None

\* C3: when the provider answers the refresh request with invalid_grant,
\* getValidAccessToken fails with RefreshRejected and no step of the
\* invocation changes the record in the file or in the vault.
C3_InvalidGrantRejected ==
  [][\A c \in Callers :
       /\ (getValidAccessToken(c) \/ tokenEndpoint(c) \/ refreshAccessToken(c)) =>
            StoresUnchanged
       /\ (/\ refreshAccessToken(c)
           /\ call[c].response[1].kind = "http"
           /\ call[c].response[1].error = "invalid_grant") =>
            /\ call'[c].pc = "done"
            /\ call'[c].result = Fail("RefreshRejected")]_vars

C3_Witness ==
  \E c \in Callers :
    /\ call[c].pc = "done"
    /\ call[c].result = Fail("RefreshRejected")
    /\ file # <<>>
    /\ file[1].lastRefreshedAt = None

\* C4: getValidAccessToken fails with NotAuthenticated when no record is
\* stored and with ReauthRequired when the stored token is within the margin
\* (or has no expiry) and there is no refresh token; no request is sent and
\* the stores are unchanged.
C4_NoRecordNoRefreshToken ==
  [][\A c \in Callers :
       /\ (getValidAccessToken(c) /\ file = <<>>) =>
            /\ call'[c].pc = "done"
            /\ call'[c].result = Fail("NotAuthenticated")
            /\ call'[c].nreq = 0
            /\ StoresUnchanged
       /\ (getValidAccessToken(c) /\ Stale /\ file[1].tokens.refresh_token = None) =>
            /\ call'[c].pc = "done"
            /\ call'[c].result = Fail("ReauthRequired")
            /\ call'[c].nreq = 0
            /\ StoresUnchanged]_vars

C4_Witness ==
  \E c \in Callers :
    /\ call[c].pc = "done"
    /\ call[c].result = Fail("ReauthRequired")
    /\ Stale
    /\ file[1].tokens.expiry_date # None
    /\ file[1].tokens.refresh_token = None

\* C5: a stored bundle with no expiry is never served from the cache:
\* getValidAccessToken sends a refresh request or fails with ReauthRequired.
C5_NoExpiryNeverCached ==
  [][\A c \in Callers :
       (getValidAccessToken(c) /\ file # <<>> /\ file[1].tokens.expiry_date = None) =>
         /\ call'[c].result.kind # "ok"
         /\ \/ call'[c].pc = "fetch" /\ call'[c].nreq = 1
            \/ call'[c].pc = "done" /\ call'[c].result = Fail("ReauthRequired")]_vars

\* A refresh is in flight for a record without expiry.
C5_Witness ==
  \E c \in Callers :
    /\ call[c].pc = "fetch"
    /\ file # <<>>
    /\ file[1].tokens.expiry_date = None
    /\ file[1].tokens.refresh_token = call[c].refreshToken

\* C6: when getValidAccessToken calls overlap on a stale record, at most one
\* refresh request to the token endpoint is in flight at any time.
C6_SingleRefreshInFlight ==
  Cardinality({c \in Callers : call[c].pc = "fetch"}) <= 1

\* C7: one invocation of getValidAccessToken sends at most one request to the
\* token endpoint; a failure other than invalid_grant ends the invocation with
\* that failure, without another request and with the stores unchanged.
C7_NoRetry ==
  [][\A c \in Callers :
       /\ call'[c].nreq <= 1
       /\ (/\ refreshAccessToken(c)
           /\ call[c].response[1].kind # "ok"
           /\ call[c].response[1].error # "invalid_grant") =>
            /\ call'[c].pc = "done"
            /\ call'[c].result =
                 IF call[c].response[1].kind = "network"
                 THEN Fail("NetworkError") ELSE Fail("RefreshFailed")
            /\ call'[c].nreq = call[c].nreq
            /\ StoresUnchanged]_vars

C7_Witness ==
  \E c \in Callers :
    /\ call[c].pc = "done"
    /\ call[c].nreq = 1
    /\ call[c].result.kind \in {"RefreshFailed", "NetworkError"}
    /\ file # <<>>

\* C8: the callback listener is closed exactly once per attempt: at least
\* once when the attempt is settled, and never a second time.
C8_ClosedExactlyOnce ==
  /\ closeCalls <= 1
  /\ promise.state # "pending" => closeCalls >= 1

\* C9: whenever the attempt's result is delivered (the promise is resolved or
\* rejected), the loopback listener no longer accepts connections.
C9_ListenerDownWhenSettled ==
  promise.state # "pending" => server.state = "closed"

\* The attempt is DONE with tokens and the listener is closed.
C9_Witness ==
  /\ promise = [state |-> "resolved", value |-> "tokens"]
  /\ server.state = "closed"

\* C10 as claimed: a callback request carrying an error parameter (with or
\* without a code) fails the attempt as FlowDenied, is answered with the
\* failure page, starts no exchange and leaves the listener closed; one with
\* neither error nor code fails the attempt without an exchange.
C10_ErrorParameterPresent ==
  [][\A q \in Queries :
       /\ (requestHandler(q) /\ q.path = CallbackPath /\ q.error # Null) =>
            /\ promise' = [state |-> "rejected", value |-> "OAuth error"]
            /\ requests'[Len(requests')].page = "ERROR_HTML"
            /\ exchanges' = exchanges
            /\ server'.state = "closed"
       /\ (requestHandler(q) /\ q.path = CallbackPath
             /\ q.error = Null /\ q.code = Null) =>
            /\ promise'.state = "rejected"
            /\ exchanges' = exchanges
            /\ server'.state = "closed"]_vars

\* C10 as amended: the same for a callback request whose error parameter is
\* not empty; a callback request with no non-empty error and no non-empty code
\* fails the attempt without an exchange.
C10_ErrorParameterNonEmpty ==
  [][\A q \in Queries :
       /\ (requestHandler(q) /\ q.path = CallbackPath
             /\ q.error # Null /\ q.error # <<"">>) =>
            /\ promise' = [state |-> "rejected", value |-> "OAuth error"]
            /\ requests'[Len(requests')].page = "ERROR_HTML"
            /\ exchanges' = exchanges
            /\ server'.state = "closed"
       /\ (requestHandler(q) /\ q.path = CallbackPath
             /\ q.error \in {Null, <<"">>} /\ q.code \in {Null, <<"">>}) =>
            /\ promise' = [state |-> "rejected",
                           value |-> "No authorization code received"]
            /\ requests'[Len(requests')].page = "ERROR_HTML"
            /\ exchanges' = exchanges
            /\ server'.state = "closed"]_vars

\* A callback carrying both an error and a code has failed the attempt.
C10_Witness ==
  /\ requests # <<>>
  /\ requests[Len(requests)].path = CallbackPath
  /\ requests[Len(requests)].error = <<"v">>
  /\ requests[Len(requests)].code = <<"v">>
  /\ requests[Len(requests)].page = "ERROR_HTML"
  /\ promise = [state |-> "rejected", value |-> "OAuth error"]
  /\ exchanges = 0
  /\ server.state = "closed"

\* A callback-path request the handler took to the exchange (no non-empty
\* error, a non-empty code).
CodeCallback(r) ==
  r.path = CallbackPath /\ ~Truthy(r.error) /\ Truthy(r.code)

\* C11: within one attempt only the first callback-path request is honored:
\* at most one code exchange is sent, and a callback-path request that comes
\* after another one starts no exchange and leaves the outcome alone.
C11_FirstCallbackOnly ==
  /\ exchanges <= 1
  /\ \A i \in DOMAIN requests :
       (/\ requests[i].path = CallbackPath
        /\ \E j \in 1..(i - 1) : requests[j].path = CallbackPath) =>
          requests[i].st # "exchanging"

\* C12: a callback carrying a code is answered with the success page without
\* waiting for the exchange: no such request is left unanswered while its
\* exchange is in flight, and its answer is the success page whatever the
\* token endpoint returns.
C12_SuccessPageBeforeExchange ==
  \A i \in DOMAIN requests :
    CodeCallback(requests[i]) =>
      /\ requests[i].st = "answered"
      /\ requests[i].page = "SUCCESS_HTML"

\* C13: every exchange request of an attempt carries the code_verifier whose
\* challenge is in the attempt's authorization URL and the redirect_uri of
\* that URL (host, assigned port, callback path); each attempt generates a
\* pair no earlier attempt had.
C13_VerifierAndRedirectUri ==
  [][/\ \A i \in DOMAIN sent' :
          /\ authUrl' # Null
          /\ generateCodeChallenge(sent'[i].code_verifier) =
               authUrl'[1].code_challenge
          /\ sent'[i].redirect_uri = authUrl'[1].redirect_uri
          /\ sent'[i].redirect_uri =
               [host |-> Host, port |-> server'.port, path |-> CallbackPath]
     /\ (\E caller \in CallerKinds : executeLocalhostFlow(caller)) =>
          \A n \in 1..generated :
            /\ pkce'.codeVerifier # generateCodeVerifier(n)
            /\ pkce'.codeChallenge # generateCodeChallenge(generateCodeVerifier(n))]_vars

\* The second attempt has sent its exchange, with its own verifier.
C13_Witness ==
  /\ generated = 2
  /\ sent # <<>>
  /\ sent[1].code_verifier = generateCodeVerifier(2)
  /\ authUrl # Null
  /\ sent[1].redirect_uri = authUrl[1].redirect_uri

\* No request on the callback path has been received in this attempt.
NoCallbackRequest ==
  \A i \in DOMAIN requests : requests[i].path # CallbackPath

\* C14: the 5-minute timer of an attempt stays armed until it fires, whatever
\* requests arrive; when it fires and no callback-path request has arrived,
\* the listener is closed and the attempt fails with the timeout error; a
\* request to another path changes neither the timer nor the outcome.
C14_TimeoutEndsAttempt ==
  [][/\ (timer = "armed" /\ server.state # "binding") => ENABLED timeoutFires
     /\ (timeoutFires /\ NoCallbackRequest) =>
          /\ promise' = [state |-> "rejected", value |-> "Authentication timeout"]
          /\ server'.state = "closed"
          /\ closeCalls' = 1
     /\ \A q \in Queries :
          (requestHandler(q) /\ q.path # CallbackPath) =>
            /\ UNCHANGED <<timer, promise, server, closeCalls>>
            /\ requests'[Len(requests')].status = 404]_vars

\* The timer has fired after requests to other paths only.
C14_Witness ==
  /\ timer = "fired"
  /\ requests # <<>>
  /\ NoCallbackRequest
  /\ promise = [state |-> "rejected", value |-> "Authentication timeout"]
  /\ server.state = "closed"

\* C18: the wait between polls is the provider's interval (5 seconds when it
\* gives none) plus 1 second per slow_down received so far; it is unchanged
\* by authorization_pending and never decreases; pending and slow_down never
\* become the outcome of the flow, which after them polls again or, with the
\* lifetime over, expires; any other error ends the flow at once.
C18_PollInterval ==
  [][/\ device'.pc \in {"wait", "poll"} =>
          device'.currentInterval = device'.pollInterval + device'.slowDowns
     /\ device'.pc = "wait" =>
          device'.wakeAt - clock' = device'.currentInterval
     /\ device'.outcome.value \notin {"PENDING", "SLOW_DOWN"}
     /\ \A ok \in BOOLEAN, interval \in Intervals, expires_in \in Lifetimes,
           d \in Delays :
          (deviceCodeResponse(ok, interval, expires_in, d) /\ ok) =>
            device'.currentInterval = IF interval = 0 THEN 5 ELSE interval
     /\ \A answer \in PollAnswers, d \in Delays :
          pollResponse(answer, d) =>
            /\ device'.currentInterval >= device.currentInterval
            /\ answer = "authorization_pending" =>
                 /\ device'.currentInterval = device.currentInterval
                 /\ \/ device'.pc = "wait"
                    \/ /\ clock' >= device.expiresAt
                       /\ device'.outcome.value = "Device code expired"
            /\ answer = "slow_down" =>
                 /\ device'.currentInterval = device.currentInterval + 1
                 /\ \/ device'.pc = "wait"
                    \/ /\ clock' >= device.expiresAt
                       /\ device'.outcome.value = "Device code expired"
            /\ answer \in {"access_denied", "network"} =>
                 /\ device'.pc = "done"
                 /\ device'.outcome.state = "rejected"
                 /\ device'.outcome.value \in {"Token polling failed", "fetch failed"}
                 /\ device'.polls = device.polls
     /\ (\E late \in Delays : pollTimerFires(late)) => device.outcome = Pending]_vars

\* The third wait of a flow whose first two polls were answered slow_down.
C18_Witness ==
  /\ device.pc = "wait"
  /\ device.polls = 2
  /\ device.slowDowns = 2
  /\ device.currentInterval = device.pollInterval + 2
  /\ device.wakeAt - clock = device.currentInterval

\* C19: a device-flow call requests the device-authorization endpoint once,
\* and when the lifetime of the device code is over without tokens (the last
\* poll was already sent at or after the expiry), it ends with the
\* device-code-expired error.
C19_ExpiredError ==
  /\ device.codeRequests <= 1
  /\ (/\ device.pc = "done"
      /\ device.outcome.state = "rejected"
      /\ device.polls > 0
      /\ device.lastPollAt >= device.expiresAt) =>
       device.outcome.value = "Device code expired"

\* An initialize call is between its start and its return.
InProgress == init.pc \notin {"idle", "done"}

\* C15: initialize('auto') starts the device flow only when the listener of
\* the localhost flow could not be set up; when the localhost flow was set up
\* and then rejected (timeout, denial, failed exchange), initialize fails
\* with that error and the device flow is not started.
C15_FallbackOnlyIfNotEstablished ==
  [][/\ (executeDeviceFlow("initialize") /\ init.method = "auto") =>
          server.state = "failed"
     /\ (/\ localhostReturns
         /\ init.method = "auto"
         /\ promise.state = "rejected"
         /\ authUrl # Null) =>
          /\ init'.pc = "done"
          /\ init'.outcome = promise]_vars

\* C16: initialize with an explicit method runs only that flow: 'localhost'
\* never starts or advances a device flow, 'device' never starts a listener,
\* and a rejection of the chosen flow is the outcome of initialize.
C16_ExplicitMethodOnly ==
  [][/\ executeDeviceFlow("initialize") => init.method # "localhost"
     /\ executeLocalhostFlow("initialize") => init.method # "device"
     /\ (InProgress /\ init.method = "localhost") => device' = device
     /\ (InProgress /\ init.method = "device") =>
          /\ server'.state \notin {"binding", "listening"}
          /\ generated' = generated
     /\ (/\ localhostReturns
         /\ init.method = "localhost"
         /\ promise.state = "rejected") =>
          /\ init'.pc = "done"
          /\ init'.outcome = promise
     /\ (/\ deviceReturns
         /\ init.method = "device"
         /\ device.outcome.state = "rejected") =>
          /\ init'.pc = "done"
          /\ init'.outcome = device.outcome]_vars

\* initialize('localhost') has failed on a denial, the first call of the run:
\* no device flow has ever been started.
C16_Witness ==
  /\ init.pc = "done"
  /\ init.method = "localhost"
  /\ init.outcome = [state |-> "rejected", value |-> "OAuth error"]
  /\ device = IdleDevice

\* C17: with the client id or the client secret missing, initialize fails at
\* once with the missing-configuration error: no listener is opened, no
\* endpoint is contacted, and the file and the vault are unchanged.
C17_ConfigurationMissing ==
  [][ConfigMissing =>
       /\ \A m \in Methods :
            initialize(m) =>
              /\ init'.pc = "done"
              /\ init'.outcome =
                   [state |-> "rejected", value |-> "Missing OAuth credentials"]
       /\ server'.state = "none"
       /\ generated' = 0
       /\ exchanges' = 0
       /\ device' = IdleDevice
       /\ StoresUnchanged]_vars

\* initialize has failed for a missing value while a record was stored.
C17_Witness ==
  /\ ConfigMissing
  /\ init.pc = "done"
  /\ init.outcome = [state |-> "rejected", value |-> "Missing OAuth credentials"]
  /\ file = <<EarlierRecord>>
  /\ vault[EarlierRecord.email] = <<EarlierRecord>>

\* The credential records readable from the file or from any vault entry.
StoredRecords ==
  ({file} \cup {vault[e] : e \in Emails}) \ {<<>>}

\* C20: whenever no refresh is in the middle of its writes, at most one
\* credential record exists over the file and all vault entries.
C20_SingleRecord ==
  (\A c \in Callers : call[c].pc \in {"idle", "done"}) =>
    Cardinality(StoredRecords) <= 1

\* C21: a retrieveTokens call that directly follows a storeTokens call (no
\* write in between) returns the record that call stored, whatever the email
\* of the record, the hint given to retrieve and the state of the keyring.
C21_RoundTrip ==
  [][\A email \in Emails \cup {NoEmail} :
       retrieveTokensReturns(email) /\ op.kind = "storeTokens"
         => op'.result = <<op.arg>>]_vars

\* C22: every store leaves its record in the file; the keyring is written
\* only for a record with an email; when keytar is missing or its write
\* fails the call still returns, with kind 'file', and retrieveTokens()
\* returns the record.
C22_FileAlwaysWritten ==
  [][\A r \in 0..MaxIssued, e \in ExpiresIn, em \in Emails \cup {NoEmail},
        ok \in BOOLEAN :
       storeTokens("api", r, e, em, ok) =>
         /\ op'.kind = "storeTokens"
         /\ file' = <<op'.arg>>
         /\ (retrieveTokens(NoEmail))' = <<op'.arg>>
         /\ (em = NoEmail \/ ~(keytar /\ ok)
               => vault' = vault /\ op'.result = "file")
         /\ (em # NoEmail /\ keytar /\ ok
               => vault'[em] = <<op'.arg>> /\ op'.result = "keyring")]_vars

\* a store with an email returned 'file' although keytar is loaded: the
\* keyring write failed
C22_Witness ==
  /\ op.kind = "storeTokens"
  /\ keytar
  /\ op.arg.email # NoEmail
  /\ op.result = "file"
  /\ file = <<op.arg>>

C24_LogoutClearsStores ==
  [][\A revokeToken \in BOOLEAN, answer \in RevokeAnswers :
       logout("api", revokeToken, answer, TRUE) =>
         \A email \in Emails \cup {NoEmail} :
           (retrieveTokens(email))' = <<>>]_vars

\* C29: when the bundle has no id_token, or one whose middle segment is
\* missing, is not JSON or is not an object, initialize stores the record
\* without email, in the file only, and returns the tokens.
C29_UndecodableIdToken ==
  [][\A r \in {issued + 1}, id_token \in IdTokens :
       (init.pc = "store"
          /\ (id_token = <<>> \/ DecodeThrows(id_token))
          /\ initializeStores(r, 11, id_token, TRUE)) =>
         /\ file' # <<>> /\ file'[1].email = NoEmail
         /\ file'[1].tokens.access_token = issued + 1
         /\ vault' = vault
         /\ init'.pc = "done"
         /\ init'.outcome = [state |-> "resolved", value |-> "tokens"]]_vars

\* initialize has returned tokens with a record without email in the file,
\* the keyring being available and empty
C29_Witness ==
  /\ init.pc = "done" /\ init.outcome.state = "resolved"
  /\ keytar
  /\ file # <<>> /\ file[1].email = NoEmail
  /\ \A e \in Emails : vault[e] = <<>>

\* C25: a getAuthStatus call leaves the file and the keyring as they are and
\* sends nothing: no token request of any invocation, no exchange, no
\* device request, no request of its own; an expired token stays expired.
C25_StatusReadOnly ==
  [][getAuthStatusReturns =>
       /\ StoresUnchanged
       /\ call' = call
       /\ sent' = sent /\ exchanges' = exchanges
       /\ device' = device
       /\ op'.net = 0]_vars

\* the status of a record whose token has expired and which has a refresh
\* token has been reported, and the record is as it was
C25_Witness ==
  /\ op.kind = "getAuthStatus" /\ op.result.authenticated
  /\ file # <<>>
  /\ file[1].tokens.refresh_token # None
  /\ file[1].tokens.expiry_date # None
  /\ now >= file[1].tokens.expiry_date
  /\ op.result.expiresAt = file[1].tokens.expiry_date
  /\ file[1].lastRefreshedAt = None

\* C26: getAuthStatus reports authenticated:false exactly when
\* retrieveTokens() finds no record; once initialize has stored the bundle
\* of a flow with email e and expires_in d, the status is authenticated with
\* email e and a storage kind, and getTokenExpiry reports, until the expiry
\* date issuance + d, isExpired:false and the whole minutes left until it.
C26_StatusAfterInitialize ==
  [][/\ getAuthStatusReturns =>
          /\ op'.result.authenticated <=> file # <<>>
          /\ file # <<>> =>
               /\ op'.result.email = file[1].email
               /\ op'.result.storageType \in {"file", "keyring"}
     /\ \A r \in {None, issued + 1}, e \in ExpiresIn \ {0},
           id_token \in SignedIn :
          (init.pc = "store" /\ EmailOf(id_token) # NoEmail
             /\ initializeStores(r, e, id_token, TRUE)) =>
            /\ init'.outcome.state = "resolved"
            /\ file'[1].email = EmailOf(id_token)
            /\ file'[1].tokens.expiry_date = now + e
            /\ (getAuthStatus)'.authenticated
            /\ (getAuthStatus)'.email = EmailOf(id_token)
            /\ (getAuthStatus)'.storageType \in {"file", "keyring"}
            /\ (getTokenExpiry)' =
                 <<[expiresAt |-> now + e, isExpired |-> FALSE,
                    minutesUntilExpiry |-> e \div TicksPerMinute]>>
     /\ (getTokenExpiryReturns /\ file # <<>>
           /\ file[1].tokens.expiry_date # None
           /\ now < file[1].tokens.expiry_date) =>
          op'.result =
            <<[expiresAt |-> file[1].tokens.expiry_date, isExpired |-> FALSE,
               minutesUntilExpiry |->
                 (file[1].tokens.expiry_date - now) \div TicksPerMinute]>>]_vars

\* after a successful initialize with an email, some time later, the status
\* and then the expiry have been asked for: 10 of the 11 ticks are left
C26_Witness ==
  /\ init.pc = "done" /\ init.outcome.state = "resolved"
  /\ file # <<>> /\ file[1].email \in Emails
  /\ file[1].tokens.expiry_date = file[1].createdAt + 11
  /\ now = file[1].createdAt + 1
  /\ op.kind = "getTokenExpiry" /\ op.after = "getAuthStatus"
  /\ op.result # <<>>
  /\ ~op.result[1].isExpired
  /\ op.result[1].minutesUntilExpiry = 5

\* C27: for a record with an expiry date and r = expiry - now,
\* getValidAccessToken returns the stored token iff r is more than the
\* 5-minute margin and otherwise starts a refresh (or, without refresh
\* token, asks for re-authentication), while getTokenExpiry in the same
\* state reports isExpired iff r <= 0 and else the whole minutes of r.
C27_TwoMargins ==
  [][\A c \in Callers :
       (getValidAccessToken(c) /\ file # <<>>
          /\ file[1].tokens.expiry_date # None) =>
         LET r == file[1].tokens.expiry_date - now
             expiry == getTokenExpiry
         IN /\ call'[c] = DoneCall(Ok(file[1].tokens.access_token), 0)
                 <=> r > Margin
            /\ (r <= Margin /\ file[1].tokens.refresh_token # None)
                 => call'[c].pc = "fetch" /\ call'[c].nreq = 1
            /\ (r <= Margin /\ file[1].tokens.refresh_token = None)
                 => call'[c] = DoneCall(Fail("ReauthRequired"), 0)
            /\ expiry # <<>>
            /\ expiry[1].isExpired <=> r <= 0
            /\ r > 0 => /\ expiry[1].minutesUntilExpiry = r \div TicksPerMinute
                        /\ expiry[1].minutesUntilExpiry >= 0
            /\ r <= 0 => expiry[1].minutesUntilExpiry = Undefined]_vars

\* a refresh is under way for a token that expires in exactly 5 minutes,
\* which getTokenExpiry reports as not expired with 5 minutes left
C27_Witness ==
  /\ call["c1"].pc = "fetch"
  /\ file # <<>>
  /\ file[1].tokens.expiry_date # None
  /\ file[1].tokens.expiry_date - now = Margin
  /\ getTokenExpiry # <<>>
  /\ ~getTokenExpiry[1].isExpired
  /\ getTokenExpiry[1].minutesUntilExpiry = DefaultBufferMinutes

\* C28: a retrieveTokens() that runs while a write of the file is under way
\* returns the complete record the file held before the write or the
\* complete record being written, and not null in place of a record.
C28_NoTornRead ==
  [][(retrieveTokensReturns(NoEmail) /\ writing # <<>>) =>
       op'.result \in {file, storeInFile(writing[1].data)}]_vars

\* C30: every generated verifier has 43 characters (between 43 and 128), all
\* of them unreserved, and is accepted by isValidCodeVerifier; the challenge
\* of the pair is what generateCodeChallenge gives for that verifier, and it
\* has no '+', '/' or '='.
C30_VerifierAndChallenge ==
  /\ Len(pkce.codeVerifier) = MinVerifierLength
  /\ Len(pkce.codeVerifier) \in MinVerifierLength..MaxVerifierLength
  /\ \A k \in DOMAIN pkce.codeVerifier : pkce.codeVerifier[k] \in Unreserved
  /\ isValidCodeVerifier(pkce.codeVerifier)
  /\ pkce.codeChallenge = generateCodeChallengeOf(pkce.codeVerifier)
  /\ \A k \in DOMAIN pkce.codeChallenge :
       pkce.codeChallenge[k] \notin {"+", "/", "="}

\* a pair has been generated whose verifier and challenge both hold a
\* character that base64 would have written '+' or '/'
C30_Witness ==
  /\ pkce # generatePKCEPairFrom(RandomBuffer(0, 0, 0))
  /\ \E k \in DOMAIN pkce.codeVerifier : pkce.codeVerifier[k] \in {"-", "_"}
  /\ \E k \in DOMAIN pkce.codeChallenge : pkce.codeChallenge[k] \in {"-", "_"}
  /\ Len(pkce.codeChallenge) = MinVerifierLength

C32_LastIssuedPersisted ==
  [][\A c, d \in Callers :
       (/\ c # d
        /\ updateFile(c)
        /\ call[c].newTokens[1].refresh_token = call[c].newTokens[1].access_token
        /\ call[d].pc = "done" /\ call[d].result.kind = "ok" /\ call[d].nreq = 1
        /\ file # <<>>
        /\ file[1].tokens.access_token = call[d].result.token
        /\ file[1].tokens.refresh_token = call[d].result.token) =>
         /\ file'[1].tokens.access_token >= call[d].result.token
         /\ file'[1].tokens.refresh_token >= call[d].result.token]_vars

\* C33: a refresh that was under way when logout deleted the record writes
\* nothing back: its keyring and file writes leave an empty file empty and
\* put no entry into the keyring.
C33_NoWriteAfterLogout ==
  [][\A c \in Callers :
       ((updateKeyring(c) \/ updateFile(c)) /\ file = <<>>) =>
         /\ file' = <<>>
         /\ vault' = vault]_vars

\* C34: with no refresh under way, a refreshed record in the file and an
\* entry in the keyring under that record's email are the same record, so
\* that retrieveTokens(email) returns what the file holds.
C34_VaultEqualsFile ==
  (/\ \A c \in Callers : call[c].pc \in {"idle", "done"}
   /\ keytar
   /\ file # <<>>
   /\ file[1].lastRefreshedAt # None
   /\ file[1].email # NoEmail
   /\ vault[file[1].email] # <<>>) =>
    /\ vault[file[1].email] = file
    /\ retrieveTokens(file[1].email) = retrieveTokens(NoEmail)

\* C35: the only step of initialize that changes the file or the keyring is
\* the store that follows a flow's token bundle and ends the call with
\* success; the call reaches that store only from a flow that resolved; so a
\* call that fails leaves every record retrievable as before.
C35_StoresOnlyAfterTokens ==
  [][/\ (file' # file \/ vault' # vault) =>
          /\ init.pc = "store"
          /\ init'.pc = "done" /\ init'.outcome.state = "resolved"
     /\ (init'.pc = "store" /\ init.pc # "store") =>
          \/ init.pc = "awaitLocalhost" /\ promise.state = "resolved"
          \/ init.pc = "awaitDevice" /\ device.outcome.state = "resolved"
     /\ (init'.pc = "done" /\ init'.outcome.state = "rejected") =>
          /\ init.pc # "store"
          /\ \A e \in Emails \cup {NoEmail} :
               (retrieveTokens(e))' = retrieveTokens(e)]_vars

\* a forced re-authentication over an existing session has failed in both
\* flows ('auto': the localhost attempt, then the device flow) and the earlier
\* record is still in the file and in the keyring
C35_Witness ==
  /\ init.pc = "done" /\ init.method = "auto"
  /\ init.outcome.state = "rejected"
  /\ promise.state = "rejected"
  /\ device.pc = "done" /\ device.outcome.state = "rejected"
  /\ file = <<EarlierRecord>>
  /\ retrieveTokens(EarlierRecord.email) = <<EarlierRecord>>
  /\ issued = 1

\* C36: once a callback request with an authorization code has gone to the
\* exchange, the attempt is never settled by the timeout: not while the
\* exchange is in flight, and not after it has delivered tokens.
C36_ExchangeDecides ==
  (\E i \in DOMAIN requests :
      \/ requests[i].st = "exchanging"
      \/ requests[i].st = "answered" /\ requests[i].status \in {200, 500}
           /\ requests[i].path = CallbackPath /\ ~Truthy(requests[i].error)) =>
    promise # [state |-> "rejected", value |-> "Authentication timeout"]

\* C37: every poll of the device flow is sent before the device code
\* expires: the time of the last poll sent is less than expiresAt.
C37_NoPollAfterExpiry ==
  device.polls > 0 => device.lastPollAt < device.expiresAt

\* File discovery on its own: listings, one after another, of what Drive
\* holds at the time of each call.
InitDiscovery ==
  /\ now = 1
  /\ keytar = TRUE
  /\ file = <<>>
  /\ vault = [e \in Emails |-> <<>>]
  /\ issued = 0
  /\ call = [c \in Callers |-> IdleCall]
  /\ server = [state |-> "none", port |-> 0]
  /\ closeCalls = 0
  /\ timer = "none"
  /\ promise = [state |-> "pending", value |-> ""]
  /\ requests = <<>>
  /\ exchanges = 0
  /\ sent = <<>>
  /\ pkce = generatePKCEPair(0)
  /\ generated = 0
  /\ authUrl = Null
  /\ device = IdleDevice
  /\ clock = 0
  /\ init = IdleInit
  /\ config = [clientId |-> "id", clientSecret |-> "secret"]
  /\ op = NoOp
  /\ writing = <<>>
  /\ listing = IdleListing
  /\ migrator = NewMigrator

NextDiscovery ==
  \/ \E drive \in Drives : fetchAllFiles(drive)
  \/ listResolves
  \/ rateLimitDelayEnds
  \/ \E error \in ListErrors, retryAfter \in RetryAfters :
       listRejects(error, retryAfter)
  \/ handleRateLimitEnds

SpecDiscovery == InitDiscovery /\ [][NextDiscovery]_vars

\* One BinaryFileMigrator used for up to MaxCalls migrations, one at a time.
InitMigrate ==
  /\ now = 1
  /\ keytar = TRUE
  /\ file = <<>>
  /\ vault = [e \in Emails |-> <<>>]
  /\ issued = 0
  /\ call = [c \in Callers |-> IdleCall]
  /\ server = [state |-> "none", port |-> 0]
  /\ closeCalls = 0
  /\ timer = "none"
  /\ promise = [state |-> "pending", value |-> ""]
  /\ requests = <<>>
  /\ exchanges = 0
  /\ sent = <<>>
  /\ pkce = generatePKCEPair(0)
  /\ generated = 0
  /\ authUrl = Null
  /\ device = IdleDevice
  /\ clock = 0
  /\ init = IdleInit
  /\ config = [clientId |-> "id", clientSecret |-> "secret"]
  /\ op = NoOp
  /\ writing = <<>>
  /\ listing = IdleListing
  /\ migrator = NewMigrator

NextMigrate ==
  \/ \E n \in 0..MaxFiles, batchSize \in BatchSizes,
        validateQuota \in BOOLEAN, sized \in BOOLEAN :
       migrateFiles(n, batchSize, validateQuota, sized)
  \/ \E sufficient \in BOOLEAN : quotaChecked(sufficient)
  \/ \E k \in 1..MaxFiles, ok \in BOOLEAN : migrateFile(k, ok)
  \/ batchSettled
  \/ migratorDelayEnds
  \/ stop

SpecMigrate == InitMigrate /\ [][NextMigrate]_vars

\* C38: a fetchAllFiles call that returns, returns the non-folder files of
\* every result page of the query, in page order, whatever rate-limit errors
\* were met on the way, the first request included.
C38_AllPagesListed ==
  (listing.pc = "done" /\ listing.outcome.state = "resolved") =>
    listing.allFiles = FilesFrom(listing.drive, 1)

\* C39: a migrateFiles call that returns with no stop() requested has every
\* one of its files exactly once in migrations or failures; its summary has
\* completed + failed = total = files.length, and the progress tracker has
\* completed + failed = total and remaining 0.
C39_EveryFileOnce ==
  (migrator.pc = "done" /\ migrator.outcome.state = "resolved"
     /\ ~migrator.shouldStop) =>
    LET summary == migrator.results[1]
        recorded == migrator.migrations \o migrator.failures
    IN /\ \A k \in 1..migrator.files :
            Cardinality({j \in DOMAIN recorded :
                           recorded[j] = FileId(migrator.calls, k)}) = 1
       /\ summary.completed + summary.failed = summary.total
       /\ summary.total = migrator.files
       /\ getStatus(migrator.progress).processed = migrator.progress.total
       /\ getStatus(migrator.progress).remaining = 0

====
